---- MODULE Spec2Model ----
(***************************************************************************)
(* Bankroll controller of the betting assistant                            *)
(* (src/Stavki3/bankroll.py, class BankrollManager) together with the      *)
(* handlers that drive it on the shared event loop.                        *)
(*                                                                         *)
(* Units.  Money is kept in cents (1000.00 -> 100000), odds in hundredths  *)
(* (2.00 -> 200), probabilities and the configured percentages in percent  *)
(* (0.04 -> 4).  All comparisons the code makes on floats are made here on *)
(* the exact rationals, cross-multiplied; round(x, 2) is rounding to the   *)
(* nearest cent, and an exact tie may go either way (the float product     *)
(* can sit on either side of it).                                          *)
(***************************************************************************)
EXTENDS Integers, Sequences, FiniteSets, TLC

VARIABLES
    bankroll,        \* self.bankroll
    peak_bankroll,   \* self.peak_bankroll
    bet_history,     \* self.bet_history : sequence of BetRecord
    daily_pnl,       \* self._daily_pnl
    weekly_pnl,      \* self._weekly_pnl
    daily_reset,     \* self._daily_reset (the day it falls on)
    losing_streak,   \* self._losing_streak
    is_stopped,      \* self._is_stopped
    stop_reason,     \* self._stop_reason (the kind of reason)
    now,             \* datetime.utcnow(): [day, weekday, late], late = more than 1h after midnight
    last,            \* the call that completed last, with its arguments and return value
    settle_log,      \* results of the effective settlements since the last reset_stop
    settled_today,   \* ghost: the profits of the settlements made in the current UTC day
    settled_this_week, \* ghost: the profits of the settlements made in the current week (from Monday)
    inflight,        \* settle requests accepted by the dashboard, handler not yet run
    handled,         \* the requests whose handler has run, with whether it changed the ledger
    placed_keys,     \* SignalGenerator._placed_keys
    scans,           \* the run_scan invocations: where each one is, and its locals
    monitor,         \* where run_continuous is
    fitted,          \* DixonColesModel._fitted
    params,          \* DixonColesModel.params: None, or the teams it holds parameters for
    teams,           \* DixonColesModel.teams
    ratings,         \* EloRatingSystem.ratings: team -> the rating its updates gave it
    games_played,    \* EloRatingSystem.games_played: team -> count
    fit_log,         \* whether each DixonColesModel.fit call so far converged
    reply            \* the call to the prediction side that completed last: [op, arg, ret]

vars == <<bankroll, peak_bankroll, bet_history, daily_pnl, weekly_pnl,
          daily_reset, losing_streak, is_stopped, stop_reason, now, last,
          settle_log, settled_today, settled_this_week, inflight, handled, placed_keys, scans, monitor,
          fitted, params, teams, ratings,
          games_played, fit_log, reply>>

requests == <<inflight, handled>>

\* the state of the signal generator
scanner == <<placed_keys, scans, monitor>>

\* the state of the bankroll controller and of its callers
controller == <<bankroll, peak_bankroll, bet_history, daily_pnl, weekly_pnl,
                daily_reset, losing_streak, is_stopped, stop_reason, now,
                settle_log, settled_today, settled_this_week, inflight, handled,
                placed_keys, scans, monitor>>

\* the state of the prediction models
models == <<fitted, params, teams, ratings, games_played, fit_log>>

\* the prediction side: the models and the last call to them
predictors == <<models, reply>>

----------------------------------------------------------------------------
(* Configuration: src/Stavki3/settings.py, class BettingConfig *)

INITIAL_BANKROLL == 100000
KELLY_FRACTION == 20
MAX_BET_PERCENT == 4
MAX_EXPRESS_BET_PERCENT == 2
MAX_SYSTEM_BET_PERCENT == 3
MIN_BET_AMOUNT == 100
MAX_DAILY_LOSS_PERCENT == 8
MAX_WEEKLY_LOSS_PERCENT == 15
MAX_LOSING_STREAK == 7
BANKRUPTCY_THRESHOLD == 15

(* Literals of bankroll.py *)
STREAK_HALF == 5
STREAK_THREE_QUARTERS == 3
DRAWDOWN_HALF == 15
DRAWDOWN_THREE_QUARTERS == 10
DRAWDOWN_STOP == 30
SYSTEM_MIN_PER_COMBO == 50

----------------------------------------------------------------------------
(* Bounds and input sets *)

MaxHistory == 2
MaxStreakBets == 7
MaxConcBets == 2
MaxSizingBets == 2
MaxDrawdownBets == 5
MaxFits == 2
MaxEloMatches == 3
MaxDay == 1

\* the signals of the scan: stake_amount as sized by kelly_single on the
\* fresh bankroll (4% cap, and 3.2%), with their bookmaker_odds
Signals == {[id |-> "s1", stake_amount |-> 4000, bookmaker_odds |-> 200],
            [id |-> "s2", stake_amount |-> 3200, bookmaker_odds |-> 184]}
SignalIds == {s.id : s \in Signals}
\* the signal that is bet again and again
RebetSignals == {s \in Signals : s.id = "s1"}
\* the signals of a scan that found a third value bet
LedgerSignals == Signals \cup
    {[id |-> "s3", stake_amount |-> 4000, bookmaker_odds |-> 200]}
\* signals sized at 1% of the fresh bankroll, in the order they are bet
SmallSignalIds == <<"t1", "t2", "t3", "t4", "t5", "t6", "t7", "t8", "t9">>
SmallSignal(n) ==
    [id |-> SmallSignalIds[n], stake_amount |-> 1000, bookmaker_odds |-> 200]
\* signals staked at MAX_BET_PERCENT of the fresh bankroll
FullSignal(n) ==
    [id |-> SmallSignalIds[n], stake_amount |-> 4000, bookmaker_odds |-> 200]
RequestIds == {1, 2}
ResultInputs == {"won", "lost", "void"}
ProbInputs == {40, 60, 70}
PriceInputs == {200}
ComboInputs == {3}
StartWeekdays == {6}

initial_bankroll == INITIAL_BANKROLL

\* Python's None
None == [none |-> TRUE]

----------------------------------------------------------------------------
(* Exact arithmetic helpers *)

Abs(x) == IF x < 0 THEN -x ELSE x
Min(a, b) == IF a <= b THEN a ELSE b
Max(a, b) == IF a >= b THEN a ELSE b

RECURSIVE Gcd(_, _)
Gcd(a, b) == IF b = 0 THEN a ELSE Gcd(b, a % b)

\* a fraction is <<numerator, denominator>> with denominator > 0
Reduce(f) ==
    LET g == Gcd(Abs(f[1]), f[2]) IN
    IF g = 0 THEN f ELSE <<f[1] \div g, f[2] \div g>>
FMul(f, g) == Reduce(<<f[1] * g[1], f[2] * g[2]>>)
FLeq(f, g) == f[1] * g[2] <= g[1] * f[2]
FMin(f, g) == IF FLeq(f, g) THEN f ELSE g

\* round(n/d) to the nearest integer; both neighbours on an exact tie
RoundDiv(n, d) ==
    LET q == n \div d
        r == n % d
    IN  IF 2 * r < d THEN {q}
        ELSE IF 2 * r > d THEN {q + 1}
        ELSE {q, q + 1}

----------------------------------------------------------------------------
(* Sizing: adaptive Kelly *)

\* current_drawdown > pct/100, i.e. (peak - bankroll)/peak > pct/100;
\* the property returns 0 when peak_bankroll <= 0
DrawdownExceeds(b, pk, pct) == pk > 0 /\ (pk - b) * 100 > pct * pk

StreakFactor(ls) ==
    IF ls >= STREAK_HALF THEN <<1, 2>>
    ELSE IF ls >= STREAK_THREE_QUARTERS THEN <<3, 4>>
    ELSE <<1, 1>>

DrawdownFactor(b, pk) ==
    IF DrawdownExceeds(b, pk, DRAWDOWN_HALF) THEN <<1, 2>>
    ELSE IF DrawdownExceeds(b, pk, DRAWDOWN_THREE_QUARTERS) THEN <<3, 4>>
    ELSE <<1, 1>>

\* the two reductions taken as the smaller one instead of their product
adaptive_kelly_fraction_not_compounding ==
    FMul(<<KELLY_FRACTION, 100>>,
         FMin(StreakFactor(losing_streak),
              DrawdownFactor(bankroll, peak_bankroll)))

adaptive_kelly_fraction ==
    FMul(FMul(<<KELLY_FRACTION, 100>>, StreakFactor(losing_streak)),
         DrawdownFactor(bankroll, peak_bankroll))

\* f* computed as b*p + q over b: the losing probability added, not deducted
FStar_adding_q(p, b) == <<b * p + 100 * (100 - p), 100 * b>>

\* stake if stake >= MIN_BET_AMOUNT else 0.0, over the possible roundings
ClampMin(stakes) == {IF s >= MIN_BET_AMOUNT THEN s ELSE 0 : s \in stakes}

\* f* = (b*p - q)/b with p in percent and b = odds - 1 in hundredths
FStar(p, b) == <<b * p - 100 * (100 - p), 100 * b>>

\* kelly_single that sizes without looking at the halt flag
kelly_single_without_halt_check(p, odds) ==
    LET b == odds - 100 IN
    IF b <= 0 \/ p <= 0 THEN {0}
    ELSE IF FStar(p, b)[1] <= 0 THEN {0}
    ELSE LET f == FMin(FMul(Reduce(FStar(p, b)), adaptive_kelly_fraction),
                       Reduce(<<MAX_BET_PERCENT, 100>>))
         IN  ClampMin(RoundDiv(bankroll * f[1], f[2]))

kelly_single(p, odds) ==
    LET b == odds - 100 IN
    IF is_stopped THEN {0}
    ELSE IF b <= 0 \/ p <= 0 THEN {0}
    ELSE IF FStar(p, b)[1] <= 0 THEN {0}
    ELSE LET f == FMin(FMul(Reduce(FStar(p, b)), adaptive_kelly_fraction),
                       Reduce(<<MAX_BET_PERCENT, 100>>))
         IN  ClampMin(RoundDiv(bankroll * f[1], f[2]))

kelly_express(prob, total_odds) ==
    LET b == total_odds - 100 IN
    IF is_stopped THEN {0}
    ELSE IF total_odds <= 100 \/ prob <= 0 THEN {0}
    ELSE IF FStar(prob, b)[1] <= 0 THEN {0}
    ELSE LET f == FMin(FMul(FMul(Reduce(FStar(prob, b)), adaptive_kelly_fraction),
                            <<1, 2>>),
                       Reduce(<<MAX_EXPRESS_BET_PERCENT, 100>>))
         IN  ClampMin(RoundDiv(bankroll * f[1], f[2]))

\* BettingConfig.SYSTEM_CONFIGS: <<total_legs, system_size>>
SYSTEM_CONFIGS == {<<3, 2>>, <<4, 3>>, <<5, 3>>, <<5, 4>>}

\* math.comb
RECURSIVE comb(_, _)
comb(n, k) ==
    IF k < 0 \/ k > n THEN 0
    ELSE IF k = 0 \/ k = n THEN 1
    ELSE comb(n - 1, k - 1) + comb(n - 1, k)

\* SystemBet.num_combinations
NumCombinations(system) == comb(system[1], system[2])

\* round(max(bankroll * MAX_SYSTEM_BET_PERCENT / num_combinations, 0.5), 2)
kelly_system(num_combinations) ==
    IF is_stopped THEN {0}
    ELSE RoundDiv(Max(bankroll * MAX_SYSTEM_BET_PERCENT,
                      SYSTEM_MIN_PER_COMBO * 100 * num_combinations),
                  100 * num_combinations)

----------------------------------------------------------------------------
(* Stop-loss *)

\* _update_periods, on the accumulators d (daily) and w (weekly)
UpdatePeriods(d, w) ==
    LET newday == now.day > daily_reset
        monday == now.weekday = 0 /\ now.late
    IN  [daily  |-> IF newday THEN 0 ELSE d,
         reset  |-> IF newday THEN now.day ELSE daily_reset,
         weekly |-> IF monday THEN 0 ELSE w]

\* the stop conditions without the daily stop-loss
StopCondition_without_daily(b, pk, d, w, ls) ==
    IF Abs(Min(w, 0)) * 100 > b * MAX_WEEKLY_LOSS_PERCENT THEN "weekly"
    ELSE IF ls >= MAX_LOSING_STREAK THEN "streak"
    ELSE IF b * 100 < initial_bankroll * BANKRUPTCY_THRESHOLD THEN "bankruptcy"
    ELSE IF DrawdownExceeds(b, pk, DRAWDOWN_STOP) THEN "drawdown"
    ELSE ""

\* the stop conditions with the streak compared by > instead of >=
StopCondition_streak_off_by_one(b, pk, d, w, ls) ==
    IF Abs(Min(d, 0)) * 100 > b * MAX_DAILY_LOSS_PERCENT THEN "daily"
    ELSE IF Abs(Min(w, 0)) * 100 > b * MAX_WEEKLY_LOSS_PERCENT THEN "weekly"
    ELSE IF ls > MAX_LOSING_STREAK THEN "streak"
    ELSE IF b * 100 < initial_bankroll * BANKRUPTCY_THRESHOLD THEN "bankruptcy"
    ELSE IF DrawdownExceeds(b, pk, DRAWDOWN_STOP) THEN "drawdown"
    ELSE ""

\* the first stop condition of check_stop_conditions that holds, "" if none
StopCondition(b, pk, d, w, ls) ==
    IF Abs(Min(d, 0)) * 100 > b * MAX_DAILY_LOSS_PERCENT THEN "daily"
    ELSE IF Abs(Min(w, 0)) * 100 > b * MAX_WEEKLY_LOSS_PERCENT THEN "weekly"
    ELSE IF ls >= MAX_LOSING_STREAK THEN "streak"
    ELSE IF b * 100 < initial_bankroll * BANKRUPTCY_THRESHOLD THEN "bankruptcy"
    ELSE IF DrawdownExceeds(b, pk, DRAWDOWN_STOP) THEN "drawdown"
    ELSE ""

\* check_stop_conditions that sets the flag to the outcome of the evaluation
check_stop_conditions_recomputing_flag(b, pk, d, w, ls) ==
    LET up == UpdatePeriods(d, w)
        c  == StopCondition(b, pk, up.daily, up.weekly, ls)
    IN  /\ daily_pnl' = up.daily
        /\ weekly_pnl' = up.weekly
        /\ daily_reset' = up.reset
        /\ is_stopped' = (c # "")
        /\ stop_reason' = c

\* check_stop_conditions on the values b, pk, d, w, ls: _update_periods,
\* then _stop(reason) for the first condition that holds
check_stop_conditions(b, pk, d, w, ls) ==
    LET up == UpdatePeriods(d, w)
        c  == StopCondition(b, pk, up.daily, up.weekly, ls)
    IN  /\ daily_pnl' = up.daily
        /\ weekly_pnl' = up.weekly
        /\ daily_reset' = up.reset
        /\ is_stopped' = IF c # "" THEN TRUE ELSE is_stopped
        /\ stop_reason' = IF c # "" THEN c ELSE stop_reason

----------------------------------------------------------------------------
(* Ledger *)

BetRecord(signal_id, bet_type, stake, odds) ==
    [odds |-> odds, signal_id |-> signal_id, bet_type |-> bet_type,
     stake |-> stake, result |-> "pending", profit |-> 0]

\* the search matching on the signal id alone, whatever the record's result
FindPending_any_result(h, signal_id) ==
    LET hits == {i \in 1..Len(h) : h[i].signal_id = signal_id}
    IN  IF hits = {} THEN 0 ELSE CHOOSE i \in hits : \A j \in hits : j <= i

\* for record in reversed(bet_history): the index of the first record met
\* with this signal_id and result "pending"; 0 when the loop ends without one
FindPending(h, signal_id) ==
    LET hits == {i \in 1..Len(h) :
                    h[i].signal_id = signal_id /\ h[i].result = "pending"}
    IN  IF hits = {} THEN 0 ELSE CHOOSE i \in hits : \A j \in hits : j <= i

\* profit of a settled record: stake * odds - stake (won), 0 (void), -stake
Profit(record, result) ==
    IF result = "won" THEN (record.stake * record.odds) \div 100 - record.stake
    ELSE IF result = "void" THEN 0
    ELSE -record.stake

\* the credit to the balance: stake + profit (won), stake (void), nothing
Credit_void_restores_nothing(record, result) ==
    IF result = "won" THEN record.stake + Profit(record, result)
    ELSE 0
Credit(record, result) ==
    IF result = "won" THEN record.stake + Profit(record, result)
    ELSE IF result = "void" THEN record.stake
    ELSE 0

\* the streak update with a void settlement counted as a loss
StreakAfter_void_as_loss(ls, result) ==
    IF result = "won" THEN 0 ELSE ls + 1

StreakAfter(ls, result) ==
    IF result = "won" THEN 0
    ELSE IF result = "void" THEN ls
    ELSE ls + 1

Call(op, id, res, ret) == [id |-> id, op |-> op, res |-> res, ret |-> ret]

\* a completed call to the prediction side; arg and ret are records
Reply(op, arg, ret) == [op |-> op, ret |-> ret, arg |-> arg]

----------------------------------------------------------------------------
(* Operations *)

\* the run_scan invocations that can be in progress together: the one
\* run_continuous awaits and one started by a command (/scan, the dashboard)
ScanIds == {"continuous", "command"}
IdleScan == [pc |-> "idle", active |-> <<>>, candidates |-> <<>>, placed |-> 0]

Init ==
    /\ bankroll = INITIAL_BANKROLL
    /\ peak_bankroll = INITIAL_BANKROLL
    /\ bet_history = <<>>
    /\ daily_pnl = 0
    /\ weekly_pnl = 0
    /\ daily_reset = 0
    /\ losing_streak = 0
    /\ is_stopped = FALSE
    /\ stop_reason = ""
    /\ now \in [day : {0}, weekday : StartWeekdays, late : {FALSE}]
    /\ last = Call("init", "", "", 0)
    /\ settle_log = <<>>
    /\ settled_today = 0
    /\ settled_this_week = 0
    /\ inflight = {}
    /\ handled = {}
    /\ placed_keys = {}
    /\ scans = [n \in ScanIds |-> IdleScan]
    /\ monitor = "loop"
    /\ fitted = FALSE
    /\ params = None
    /\ teams = {}
    /\ ratings = [t \in {} |-> <<>>]
    /\ games_played = [t \in {} |-> 0]
    /\ fit_log = <<>>
    /\ reply = Reply("init", None, None)

\* BankrollManager.record_bet, as called by the dashboard's place_bet, the
\* bot's handle_bet_placed and the scan's auto-bet step
record_bet(signal_id, stake, odds) ==
    /\ bet_history' = Append(bet_history, BetRecord(signal_id, "single", stake, odds))
    /\ bankroll' = bankroll - stake
    /\ last' = Call("record_bet", signal_id, "", 0)
    /\ UNCHANGED <<peak_bankroll, daily_pnl, weekly_pnl, daily_reset,
                   losing_streak, is_stopped, stop_reason, now, settle_log, settled_today, settled_this_week>>
    /\ UNCHANGED predictors

\* BankrollManager.settle_bet
settle_bet(signal_id, result) ==
    LET i == FindPending(bet_history, signal_id) IN
    /\ last' = Call("settle_bet", signal_id, result, 0)
    /\ IF i = 0
       THEN UNCHANGED <<bankroll, peak_bankroll, bet_history, daily_pnl,
                        weekly_pnl, daily_reset, losing_streak, is_stopped,
                        stop_reason, settle_log, settled_today, settled_this_week>>
       ELSE LET record == bet_history[i]
                profit == Profit(record, result)
                b      == bankroll + Credit(record, result)
                ls     == StreakAfter(losing_streak, result)
                pk     == IF b > peak_bankroll THEN b ELSE peak_bankroll
            IN  /\ bet_history' = [bet_history EXCEPT
                                     ![i].result = result, ![i].profit = profit]
                /\ bankroll' = b
                /\ losing_streak' = ls
                /\ peak_bankroll' = pk
                /\ check_stop_conditions(b, pk, daily_pnl + profit,
                                         weekly_pnl + profit, ls)
                /\ settle_log' = Append(settle_log, result)
                /\ settled_today' = settled_today + profit
                /\ settled_this_week' = settled_this_week + profit
    /\ UNCHANGED now
    /\ UNCHANGED predictors

\* BankrollManager.check_stop_conditions, called by run_continuous
CheckStopConditions ==
    /\ check_stop_conditions(bankroll, peak_bankroll, daily_pnl, weekly_pnl,
                             losing_streak)
    /\ last' = Call("check_stop_conditions", "", "", 0)
    /\ UNCHANGED <<bankroll, peak_bankroll, bet_history, losing_streak, now,
                   settle_log, settled_today, settled_this_week, requests, scanner>>
    /\ UNCHANGED predictors

\* BankrollManager.reset_stop
reset_stop ==
    /\ is_stopped' = FALSE
    /\ stop_reason' = ""
    /\ losing_streak' = 0
    /\ settle_log' = <<>>
    /\ UNCHANGED <<settled_today, settled_this_week>>
    /\ last' = Call("reset_stop", "", "", 0)
    /\ UNCHANGED <<bankroll, peak_bankroll, bet_history, daily_pnl,
                   weekly_pnl, daily_reset, now, requests, scanner>>
    /\ UNCHANGED predictors

\* the bot's /stop command
cmd_stop ==
    /\ is_stopped' = TRUE
    /\ stop_reason' = "manual"
    /\ last' = Call("cmd_stop", "", "", 0)
    /\ UNCHANGED <<bankroll, peak_bankroll, bet_history, daily_pnl,
                   weekly_pnl, daily_reset, losing_streak, now, settle_log, settled_today, settled_this_week,
                   requests, scanner>>
    /\ UNCHANGED predictors

Sized(op, stakes) ==
    /\ \E stake \in stakes : last' = Call(op, "", "", stake)
    /\ UNCHANGED <<bankroll, peak_bankroll, bet_history, daily_pnl,
                   weekly_pnl, daily_reset, losing_streak, is_stopped,
                   stop_reason, now, settle_log, settled_today, settled_this_week, requests, scanner>>
    /\ UNCHANGED predictors

KellySingle == \E p \in ProbInputs, o \in PriceInputs : Sized("kelly_single", kelly_single(p, o))
KellyExpress == \E p \in ProbInputs, o \in PriceInputs : Sized("kelly_express", kelly_express(p, o))
KellySystem == \E n \in ComboInputs : Sized("kelly_system", kelly_system(n))

\* the wall clock moves on: past the first hour of the day, or to the next day
Tick ==
    /\ \/ /\ ~now.late
          /\ now' = [now EXCEPT !.late = TRUE]
          /\ UNCHANGED <<settled_today, settled_this_week>>
       \/ /\ now.day < MaxDay
          /\ now' = [day |-> now.day + 1, weekday |-> (now.weekday + 1) % 7,
                     late |-> FALSE]
          /\ settled_today' = 0
          /\ settled_this_week' =
                IF (now.weekday + 1) % 7 = 0 THEN 0 ELSE settled_this_week
    /\ last' = Call("tick", "", "", 0)
    /\ UNCHANGED <<bankroll, peak_bankroll, bet_history, daily_pnl,
                   weekly_pnl, daily_reset, losing_streak, is_stopped,
                   stop_reason, settle_log, requests, scanner>>
    /\ UNCHANGED predictors

RecordBet ==
    /\ Len(bet_history) < MaxHistory
    /\ \E s \in RebetSignals : record_bet(s.id, s.stake_amount, s.bookmaker_odds)
    /\ UNCHANGED <<requests, scanner>>

SettleBet ==
    /\ \E s \in RebetSignals, result \in ResultInputs : settle_bet(s.id, result)
    /\ UNCHANGED <<requests, scanner>>

Next ==
    \/ RecordBet
    \/ SettleBet
    \/ CheckStopConditions
    \/ reset_stop
    \/ cmd_stop
    \/ KellySingle
    \/ KellyExpress
    \/ KellySystem
    \/ Tick

Spec == Init /\ [][Next]_vars

----------------------------------------------------------------------------
(* The ledger when every signal is bet once: the signals of a scan are    *)
(* recorded and settled while the clock moves on                          *)

LedgerRecordBet ==
    /\ \E s \in LedgerSignals :
          /\ \A i \in 1..Len(bet_history) : bet_history[i].signal_id # s.id
          /\ record_bet(s.id, s.stake_amount, s.bookmaker_odds)
    /\ UNCHANGED <<requests, scanner>>

LedgerSettleBet ==
    /\ \E s \in LedgerSignals, result \in ResultInputs : settle_bet(s.id, result)
    /\ UNCHANGED <<requests, scanner>>

NextLedger ==
    \/ LedgerRecordBet
    \/ LedgerSettleBet
    \/ Tick

SpecLedger == Init /\ [][NextLedger]_vars

----------------------------------------------------------------------------
(* A losing run on a fresh bankroll: small bets are recorded, one signal  *)
(* each, and every settlement is a loss                                   *)

StreakRecordBet ==
    /\ Len(bet_history) < MaxStreakBets
    /\ LET s == SmallSignal(Len(bet_history) + 1)
       IN  record_bet(s.id, s.stake_amount, s.bookmaker_odds)
    /\ UNCHANGED <<requests, scanner>>

StreakSettleLost ==
    /\ \E n \in 1..Len(bet_history) : settle_bet(SmallSignal(n).id, "lost")
    /\ UNCHANGED <<requests, scanner>>

NextStreak ==
    \/ StreakRecordBet
    \/ StreakSettleLost
    \/ Tick

SpecStreak == Init /\ [][NextStreak]_vars

----------------------------------------------------------------------------
(* A losing run at full stakes: every bet takes MAX_BET_PERCENT of the    *)
(* fresh bankroll and is settled as a loss; the admin resumes after a halt *)

DrawdownRecordBet ==
    /\ Len(bet_history) < MaxDrawdownBets
    /\ LET s == FullSignal(Len(bet_history) + 1)
       IN  record_bet(s.id, s.stake_amount, s.bookmaker_odds)
    /\ UNCHANGED <<requests, scanner>>

DrawdownSettleLost ==
    /\ \E n \in 1..Len(bet_history) : settle_bet(FullSignal(n).id, "lost")
    /\ UNCHANGED <<requests, scanner>>

NextDrawdown ==
    \/ DrawdownRecordBet
    \/ DrawdownSettleLost
    \/ reset_stop

SpecDrawdown == Init /\ [][NextDrawdown]_vars

----------------------------------------------------------------------------
(* Sizing between bets: the scan sizes its signals on the bankroll that   *)
(* the recorded and settled bets have left                                *)

SizingRecordBet ==
    /\ Len(bet_history) < MaxSizingBets
    /\ \E s \in Signals : record_bet(s.id, s.stake_amount, s.bookmaker_odds)
    /\ UNCHANGED <<requests, scanner>>

SizingSettleBet ==
    /\ \E id \in SignalIds, result \in ResultInputs : settle_bet(id, result)
    /\ UNCHANGED <<requests, scanner>>

NextSizing ==
    \/ SizingRecordBet
    \/ SizingSettleBet
    \/ KellySingle
    \/ KellyExpress
    \/ KellySystem

SpecSizing == Init /\ [][NextSizing]_vars

----------------------------------------------------------------------------
(* Concurrent settle requests: POST /api/bet/settle is an async endpoint  *)
(* whose body calls bm.settle_bet without awaiting, so each accepted      *)
(* request runs its settle_bet in one step of the event loop, in any      *)
(* order, interleaved with the other handlers' record_bet calls           *)

ConcRecordBet ==
    /\ Len(bet_history) < MaxConcBets
    /\ \E s \in Signals : record_bet(s.id, s.stake_amount, s.bookmaker_odds)
    /\ UNCHANGED <<requests, scanner>>

\* two requests for the same signal id arrive together
SubmitSettlePair ==
    /\ inflight = {}
    /\ handled = {}
    /\ \E id \in SignalIds, r1 \in ResultInputs, r2 \in ResultInputs :
          inflight' = {[signal_id |-> id, result |-> r1, req |-> 1],
                       [signal_id |-> id, result |-> r2, req |-> 2]}
    /\ last' = Call("submit", "", "", 0)
    /\ UNCHANGED <<bankroll, peak_bankroll, bet_history, daily_pnl,
                   weekly_pnl, daily_reset, losing_streak, is_stopped,
                   stop_reason, now, settle_log, settled_today, settled_this_week, handled, scanner>>
    /\ UNCHANGED predictors

\* the dashboard's settle_bet endpoint runs for one accepted request
HandleSettle ==
    \E r \in inflight :
        /\ settle_bet(r.signal_id, r.result)
        /\ inflight' = inflight \ {r}
        /\ UNCHANGED scanner
        /\ handled' = handled \cup
              {[signal_id |-> r.signal_id, req |-> r.req,
                effect |-> <<bankroll', bet_history', daily_pnl', weekly_pnl',
                             peak_bankroll', losing_streak'>>
                           # <<bankroll, bet_history, daily_pnl, weekly_pnl,
                                peak_bankroll, losing_streak>>]}

NextConc ==
    \/ ConcRecordBet
    \/ SubmitSettlePair
    \/ HandleSettle

SpecConc == Init /\ [][NextConc]_vars

----------------------------------------------------------------------------
(* Prediction models: src/Stavki3/prediction_models.py.  Probabilities of  *)
(* the prediction side are kept in units of 0.0001 (0.4589 -> 4589), the   *)
(* ensemble weights in percent.  What the optimiser and the rating         *)
(* formulas compute from the training data is an input: a distribution     *)
(* over home, draw, away drawn from a small set.                           *)

\* model_config.ENSEMBLE_WEIGHTS
ENSEMBLE_WEIGHTS ==
    [dixon_coles |-> 35, elo |-> 15, market_consensus |-> 40, catboost |-> 10]

Outcomes == <<"home", "draw", "away">>
Dist(h, d, a) == [home |-> h, draw |-> d, away |-> a]

\* Python's empty dict
Empty == [empty |-> TRUE]

\* the teams of the fixtures and of the training data
Teams == {"A", "B", "C"}
TrainingSets == {{"A", "B"}, {"B", "C"}}
\* the same training data as the lists of matches EloRatingSystem.fit is given
TrainingMatches ==
    {<<[home |-> "A", away |-> "B", home_goals |-> 2, away_goals |-> 1, date |-> 1]>>,
     <<[home |-> "B", away |-> "C", home_goals |-> 0, away_goals |-> 0, date |-> 2]>>}
Fixtures == {<<"A", "B">>, <<"B", "C">>, <<"C", "A">>}
DcDists == {Dist(4000, 2500, 3500)}
EloDists == {Dist(5000, 3000, 2000)}
MarketInputs == {Empty, Dist(4500, 2800, 2700), Dist(3300, 3300, 3400)}

\* EloRatingSystem.expected_score on two teams at ELO_INITIAL = 1500 with
\* ELO_HOME_ADVANTAGE = 65: e_home = 1/(1 + 10^(-65/400)), draw_factor =
\* 0.28 * exp(-65/300), rounded to 4 places
ELO_INITIAL_SCORE == Dist(4589, 2255, 3157)

\* DixonColesModel.predict_match without the _fitted test
predict_match_ignoring_fitted(home, away) ==
    IF params = None THEN None
    ELSE IF home \notin params.teams \/ away \notin params.teams THEN None
    ELSE [fit |-> params.fit]

\* DixonColesModel.predict_match: None, or the prediction computed from the
\* parameters of fit number params.fit
predict_match(home, away) ==
    IF ~fitted \/ params = None THEN None
    ELSE IF home \notin params.teams \/ away \notin params.teams THEN None
    ELSE [fit |-> params.fit]

\* DixonColesModel.predict_probabilities, dc being the distribution the
\* parameters give
predict_probabilities(home, away, dc) ==
    IF predict_match(home, away) = None THEN Empty ELSE dc

\* EloRatingSystem.get_rating: the rating of a rated team, ELO_INITIAL
\* otherwise
get_rating(team) == IF team \in DOMAIN ratings THEN "rated" ELSE "ELO_INITIAL"

\* EloRatingSystem.expected_score, elo being the distribution the ratings
\* of rated teams give
expected_score(home, away, elo) ==
    IF get_rating(home) = "ELO_INITIAL" /\ get_rating(away) = "ELO_INITIAL"
    THEN ELO_INITIAL_SCORE
    ELSE elo

\* the sources EnsemblePredictor.predict collects, with their predictions
Predictions(dc_pred, elo_pred, market_probs) ==
    LET sources == (IF dc_pred # Empty THEN {"dixon_coles"} ELSE {})
                   \cup {"elo"}
                   \cup (IF market_probs # Empty THEN {"market_consensus"} ELSE {})
    IN  [s \in sources |->
            IF s = "dixon_coles" THEN dc_pred
            ELSE IF s = "elo" THEN elo_pred
            ELSE market_probs]

\* the sum of pred[outcome] * weight over the collected sources
Weighted(predictions, weight, outcome) ==
    LET Term(s) == IF s \in DOMAIN predictions
                   THEN predictions[s][outcome] * weight[s] ELSE 0
    IN  Term("dixon_coles") + Term("elo") + Term("market_consensus")

TotalWeight(predictions, weight) ==
    LET Term(s) == IF s \in DOMAIN predictions THEN weight[s] ELSE 0
    IN  Term("dixon_coles") + Term("elo") + Term("market_consensus")

\* the weighted average and its normalisation in EnsemblePredictor.predict:
\* ensemble[o] = sum of pred[o] * w / total_weight, then
\* round(ensemble[o] / total, 4)
Blend(predictions, weight) ==
    LET N(o) == Weighted(predictions, weight, o)
        S    == N("home") + N("draw") + N("away")
        r    == Reduce(<<10000, S>>)
    IN  {[home |-> h, draw |-> d, away |-> a,
          sources |-> predictions,
          model_count |-> Cardinality(DOMAIN predictions)] :
            h \in RoundDiv(N("home") * r[1], r[2]),
            d \in RoundDiv(N("draw") * r[1], r[2]),
            a \in RoundDiv(N("away") * r[1], r[2])}

\* EnsemblePredictor.predict: the results it can return
predict(home, away, market_probs, dc, elo) ==
    LET dc_pred == IF fitted THEN predict_probabilities(home, away, dc)
                   ELSE Empty
        elo_pred == expected_score(home, away, elo)
        predictions == Predictions(dc_pred, elo_pred, market_probs)
    IN  IF DOMAIN predictions = {}
           \/ TotalWeight(predictions, ENSEMBLE_WEIGHTS) = 0
        THEN {Empty}
        ELSE Blend(predictions, ENSEMBLE_WEIGHTS)

\* DixonColesModel.fit on matches among the teams of team_set; whether the
\* optimiser converges is the optimiser's
fit(team_set, success) ==
    /\ teams' = team_set
    /\ IF success
       THEN /\ params' = [teams |-> team_set, fit |-> Len(fit_log) + 1]
            /\ fitted' = TRUE
       ELSE /\ fitted' = FALSE
            /\ UNCHANGED params
    /\ fit_log' = Append(fit_log, success)
    /\ reply' = Reply("fit", [team_set |-> team_set], [success |-> success])
    /\ UNCHANGED <<ratings, games_played, last>>
    /\ UNCHANGED controller

\* a match of the training data: m["home"], m["away"], m["home_goals"],
\* m["away_goals"], m["date"] (a day number)
HistoryMatch(home, away, home_goals, away_goals, date) ==
    [home |-> home, away |-> away, home_goals |-> home_goals,
     away_goals |-> away_goals, date |-> date]

\* self.initial as a rating; every other rating is the record of the update
\* that produced it: <<what the update saw of the match, the home rating
\* before it, the away rating before it>>.  The float the code holds is a
\* function of this record.
InitialRating == <<>>

\* the EloRatingSystem as a value
EloState(r, g) == [ratings |-> r, games_played |-> g]

\* EloRatingSystem.update
update(self, home, away, home_goals, away_goals) ==
    LET known == DOMAIN self.ratings \cup {home, away}
        r == [t \in known |-> IF t \in DOMAIN self.ratings
                              THEN self.ratings[t] ELSE InitialRating]
        g == [t \in known |-> IF t \in DOMAIN self.games_played
                              THEN self.games_played[t] ELSE 0]
        \* k * mov * (s - e): k from the team's games, mov and e from both
        \* ratings and the goals, s from the goals
        Updated(side, team) ==
            <<[home_goals |-> home_goals, away_goals |-> away_goals,
               side |-> side, games |-> g[team]],
              r[home], r[away]>>
    IN  EloState([t \in known |-> IF t = away THEN Updated("away", away)
                                  ELSE IF t = home THEN Updated("home", home)
                                  ELSE r[t]],
                 [t \in known |-> IF t = home /\ t = away THEN g[t] + 2
                                  ELSE IF t \in {home, away} THEN g[t] + 1
                                  ELSE g[t]])

\* sorted(matches, key=lambda x: x.get("date", datetime.min)): a stable sort
sorted_by_date_unsorted(matches) == matches
sorted_by_date(matches) ==
    LET F[n \in 0..Len(matches)] ==
            IF n = 0 THEN <<>>
            ELSE LET done == F[n - 1]
                     \* matches[n] goes after every match that is not later
                     at == Cardinality({i \in 1..Len(done) :
                                           done[i].date <= matches[n].date})
                 IN  SubSeq(done, 1, at) \o <<matches[n]>>
                     \o SubSeq(done, at + 1, Len(done))
    IN  F[Len(matches)]

\* update() once per match of a list, in the order of the list
RECURSIVE Replay(_, _)
Replay(self, matches) ==
    IF matches = <<>> THEN self
    ELSE Replay(update(self, Head(matches).home, Head(matches).away,
                       Head(matches).home_goals, Head(matches).away_goals),
                Tail(matches))

\* EloRatingSystem.fit
elo_fit(matches) ==
    /\ LET self == Replay(EloState(ratings, games_played), sorted_by_date(matches))
       IN  /\ ratings' = self.ratings
           /\ games_played' = self.games_played
    /\ reply' = Reply("elo_fit", [matches |-> matches], None)
    /\ UNCHANGED <<fitted, params, teams, fit_log, last>>
    /\ UNCHANGED controller

\* the matches update() has been called for
RECURSIVE GamesSum(_, _)
GamesSum(g, names) ==
    IF names = {} THEN 0
    ELSE LET t == CHOOSE t \in names : TRUE
         IN  g[t] + GamesSum(g, names \ {t})
MatchesReplayed == GamesSum(games_played, DOMAIN games_played) \div 2

\* a query of the prediction side: no state of the models changes
Query(op, arg, results) ==
    /\ \E ret \in results : reply' = Reply(op, arg, ret)
    /\ UNCHANGED <<models, last>>
    /\ UNCHANGED controller

Fit ==
    /\ Len(fit_log) < MaxFits
    /\ \E team_set \in TrainingSets, success \in BOOLEAN : fit(team_set, success)

EloFit ==
    \E matches \in TrainingMatches :
        /\ MatchesReplayed + Len(matches) <= MaxEloMatches
        /\ elo_fit(matches)

PredictMatch ==
    \E fx \in Fixtures :
        Query("predict_match", [home |-> fx[1], away |-> fx[2]],
              {predict_match(fx[1], fx[2])})

ExpectedScore ==
    \E fx \in Fixtures, elo \in EloDists :
        Query("expected_score", [home |-> fx[1], away |-> fx[2]],
              {expected_score(fx[1], fx[2], elo)})

EnsemblePredict ==
    \E fx \in Fixtures, market_probs \in MarketInputs,
       dc \in DcDists, elo \in EloDists :
        Query("predict",
              [home |-> fx[1], away |-> fx[2], market_probs |-> market_probs],
              predict(fx[1], fx[2], market_probs, dc, elo))

NextPredict ==
    \/ Fit
    \/ EloFit
    \/ PredictMatch
    \/ ExpectedScore
    \/ EnsemblePredict

SpecPredict == Init /\ [][NextPredict]_vars

----------------------------------------------------------------------------
(* Value detector: src/core/value_engine.py.  Prices are in hundredths,    *)
(* probabilities in units of 0.0001 or as exact fractions <<num, den>>,    *)
(* the configured edges in percent.  The configuration is the record the   *)
(* engine reads as self.cfg; both settings files of the repository are     *)
(* inputs.                                                                  *)

\* src/config/settings.py, class BettingConfig
betting_config ==
    [MIN_VALUE_EDGE |-> 2, MIN_CONFIRMED_EDGE |-> 5, MAX_VALUE_EDGE |-> 60,
     MIN_ODDS |-> 105, MAX_ODDS |-> 2000,
     MIN_BOOKMAKERS |-> 1, SHARP_BOOKMAKER |-> ""]

\* src/Stavki3/settings.py, class BettingConfig
stavki3_betting_config ==
    [MIN_VALUE_EDGE |-> 3, MIN_CONFIRMED_EDGE |-> 5, MAX_VALUE_EDGE |-> 25,
     MIN_ODDS |-> 135, MAX_ODDS |-> 550,
     MIN_BOOKMAKERS |-> 5, SHARP_BOOKMAKER |-> "Pinnacle"]

BettingConfigs == {betting_config, stavki3_betting_config}

BookmakerOdds(bookmaker, market, outcomes) ==
    [bookmaker |-> bookmaker, market |-> market, outcomes |-> outcomes]

\* what the odds feed holds for one fixture: one price set per bookmaker
\* and market, as OddsDataFetcher._parse_event appends them
OddsFeed ==
    << BookmakerOdds("Pinnacle", "h2h", [home |-> 220, draw |-> 340, away |-> 360]),
       BookmakerOdds("Pinnacle", "totals", [over |-> 190, under |-> 195]),
       BookmakerOdds("Ref_BK", "h2h", [home |-> 250, draw |-> 320, away |-> 380]),
       BookmakerOdds("Ref_BK", "totals", [over |-> 185, under |-> 200]),
       BookmakerOdds("Fonbet", "h2h", [home |-> 240, draw |-> 330, away |-> 600]),
       BookmakerOdds("Fonbet", "totals", [over |-> 188, under |-> 192]) >>

\* the price sets of the feed at the positions kept, in feed order
Quoted(keep) ==
    LET F[i \in 0..Len(OddsFeed)] ==
            IF i = 0 THEN <<>>
            ELSE IF i \in keep THEN Append(F[i - 1], OddsFeed[i]) ELSE F[i - 1]
    IN  F[Len(OddsFeed)]

Match(keep) ==
    [id |-> "m1", bookmaker_odds |-> Quoted(keep), home_team |-> "A", away_team |-> "B"]

MatchInputs == {Match(keep) : keep \in SUBSET (1..Len(OddsFeed))}

\* results of EnsemblePredictor.predict ({} when no source produced one)
Prediction(h, d, a, model_count) ==
    [home |-> h, draw |-> d, away |-> a, model_count |-> model_count]

PredInputs ==
    {Empty,
     Prediction(4150, 3060, 2790, 3),
     Prediction(4150, 3060, 2790, 2),
     Prediction(4500, 2800, 2700, 3),
     Prediction(4589, 2255, 3157, 1)}

\* results of get_fair_probabilities(match.avg_odds, "shin"), to four places
FairProbInputs == {Dist(4200, 3000, 2800)}

find_best_odds(match, outcome) ==
    LET quotes == match.bookmaker_odds
        F[i \in 0..Len(quotes)] ==
            IF i = 0 THEN <<0, "">>
            ELSE IF /\ outcome \in DOMAIN quotes[i].outcomes
                    /\ quotes[i].outcomes[outcome] > F[i - 1][1]
                 THEN <<quotes[i].outcomes[outcome], quotes[i].bookmaker>>
                 ELSE F[i - 1]
    IN  F[Len(quotes)]

map_outcome(name) ==
    IF name \in {"home", "away", "draw", "over", "under"} THEN name ELSE "None"

\* 1 / price < model_prob * 1.02 on the first price set of the sharp
\* bookmaker that quotes the outcome
check_sharp_bookmaker(match, outcome, model_prob, cfg) ==
    LET quotes == match.bookmaker_odds
        sharp == {i \in 1..Len(quotes) :
                    /\ quotes[i].bookmaker = cfg.SHARP_BOOKMAKER
                    /\ outcome \in DOMAIN quotes[i].outcomes}
    IN  IF cfg.SHARP_BOOKMAKER = "" THEN FALSE
        ELSE IF sharp = {} THEN FALSE
        ELSE LET i == CHOOSE j \in sharp : \A k \in sharp : j <= k
             IN  10000 * model_prob[2] < 102 * model_prob[1] * quotes[i].outcomes[outcome]

\* sharp_res.get("is_sharp_money", False): the dictionaries that
\* SharpMoneyDetector.detect returns carry the keys detected, direction,
\* confidence and details, never is_sharp_money
sharp_money(match) == FALSE

\* edge >= pct / 100 for an edge <<num, den>>
EdgeAtLeast(edge, pct) == edge[1] * 100 >= pct * edge[2]
EdgeAtMost(edge, pct) == edge[1] * 100 <= pct * edge[2]

\* the probabilities step 3 compares with the prices, and their model count
model_probs(pred, market_probs, injury_scanner) ==
    IF pred = Empty
    THEN [o \in DOMAIN market_probs |-> <<market_probs[o], 10000>>]
    ELSE LET total == pred.home + pred.draw + pred.away
         IN  [o \in {"home", "draw", "away"} |->
                 IF injury_scanner /\ total > 0 THEN <<pred[o], total>>
                 ELSE <<pred[o], 10000>>]

model_count(pred) == IF pred = Empty THEN 1 ELSE pred.model_count

confidence(count, edge, money, cfg) ==
    IF count >= 3 /\ (EdgeAtLeast(edge, cfg.MIN_CONFIRMED_EDGE) \/ money) THEN "High"
    ELSE IF count >= 2 /\ EdgeAtLeast(edge, cfg.MIN_VALUE_EDGE) THEN "Medium"
    ELSE "Low"

analyze_match(match, pred, market_probs, cfg, injury_scanner) ==
    LET probs == model_probs(pred, market_probs, injury_scanner)
        count == model_count(pred)
        best(o) == find_best_odds(match, o)
        edge(o) == <<probs[o][1] * best(o)[1] - probs[o][2] * 100, probs[o][2] * 100>>
        emitted == {o \in DOMAIN probs :
                      /\ best(o)[1] > 100
                      /\ EdgeAtLeast(edge(o), cfg.MIN_VALUE_EDGE)
                      /\ EdgeAtMost(edge(o), cfg.MAX_VALUE_EDGE)
                      /\ best(o)[1] >= cfg.MIN_ODDS
                      /\ best(o)[1] <= cfg.MAX_ODDS
                      /\ Len(match.bookmaker_odds) >= cfg.MIN_BOOKMAKERS
                      /\ map_outcome(o) # "None"}
    IN  {[bookmaker_odds |-> best(o)[1],
          outcome |-> map_outcome(o),
          model_count |-> count,
          match |-> match.id,
          edge |-> edge(o),
          model_probability |-> probs[o],
          bookmaker_name |-> best(o)[2],
          confidence_level |-> confidence(count, edge(o), sharp_money(match), cfg),
          sharp_agrees |-> check_sharp_bookmaker(match, o, probs[o], cfg)] : o \in emitted}

AnalyzeMatch ==
    \E match \in MatchInputs, pred \in PredInputs, market_probs \in FairProbInputs,
       cfg \in BettingConfigs, injury_scanner \in BOOLEAN :
        Query("_analyze_match",
              [market_probs |-> market_probs, match |-> match, cfg |-> cfg,
               pred |-> pred, injury_scanner |-> injury_scanner],
              {[signals |-> analyze_match(match, pred, market_probs, cfg, injury_scanner)]})

NextValue ==
    \/ AnalyzeMatch

SpecValue == Init /\ [][NextValue]_vars

----------------------------------------------------------------------------
(* Multi-leg constructor: build_express_bets, _correlation_discount and    *)
(* build_system_bets of src/core/value_engine.py.  A leg's probability is   *)
(* in percent, the discount in units of 0.0001, the penalties in percent;   *)
(* products are exact fractions.                                            *)

\* the express and system settings of the two settings files
express_config ==
    [EXPRESS_MIN_LEG_PROB |-> 5, EXPRESS_MAX_LEG_ODDS |-> 2500,
     EXPRESS_MIN_LEG_EDGE |-> -5, EXPRESS_MAX_TOTAL_ODDS |-> 50000,
     EXPRESS_CORRELATION_DISCOUNT |-> 95, EXPRESS_SAME_LEAGUE_PENALTY |-> 90,
     EXPRESS_SAME_DAY_PENALTY |-> 97]

stavki3_express_config ==
    [EXPRESS_MIN_LEG_PROB |-> 52, EXPRESS_MAX_LEG_ODDS |-> 220,
     EXPRESS_MIN_LEG_EDGE |-> 3, EXPRESS_MAX_TOTAL_ODDS |-> 1500,
     EXPRESS_CORRELATION_DISCOUNT |-> 95, EXPRESS_SAME_LEAGUE_PENALTY |-> 90,
     EXPRESS_SAME_DAY_PENALTY |-> 97]

ExpressConfigs == {express_config, stavki3_express_config}

SystemConfigList == << <<3, 2>>, <<4, 3>>, <<5, 3>>, <<5, 4>> >>

SYSTEM_MIN_LEG_PROB == 55
EXPRESS_POOL_CAP == 50

Fixture(id, league, date) == [id |-> id, date |-> date, league |-> league]

\* a ValueSignal as the constructors read it; edge = probability * odds - 1
ValueSignal(match, outcome, probability, odds) ==
    [bookmaker_odds |-> odds, outcome |-> outcome,
     match |-> match, edge |-> <<probability * odds - 10000, 10000>>,
     model_probability |-> probability]

\* the signals of a scan: two markets of one fixture, three more fixtures
\* and a signal without a match
SignalPool ==
    << ValueSignal(Fixture("m1", "EPL", 1), "home", 60, 180),
       ValueSignal(Fixture("m1", "EPL", 1), "over", 58, 200),
       ValueSignal(Fixture("m2", "EPL", 1), "home", 56, 200),
       ValueSignal(Fixture("m3", "EPL", 2), "away", 64, 175),
       ValueSignal(Fixture("m4", "LaLiga", 2), "home", 50, 210),
       ValueSignal(None, "home", 70, 160) >>

Picked(pool, keep) ==
    LET F[i \in 0..Len(pool)] ==
            IF i = 0 THEN <<>>
            ELSE IF i \in keep THEN Append(F[i - 1], pool[i]) ELSE F[i - 1]
    IN  F[Len(pool)]

\* the lists a scan hands over: the signals of the pool it found, in order
SignalLists == {Picked(SignalPool, keep) : keep \in SUBSET (1..Len(SignalPool))}
NumLegsInputs == {2, 3}
MaxExpressesInputs == {1, 3}

\* f < g for fractions of positive integers, without multiplying
RECURSIVE FLt(_, _)
FLt(f, g) ==
    LET qf == f[1] \div f[2]
        qg == g[1] \div g[2]
        rf == f[1] % f[2]
        rg == g[1] % g[2]
    IN  IF qf # qg THEN qf < qg
        ELSE IF rg = 0 THEN FALSE
        ELSE IF rf = 0 THEN TRUE
        ELSE FLt(<<g[2], rg>>, <<f[2], rf>>)

\* list.sort(key, reverse=True): a stable sort, highest key first; below
\* holds the pairs <<i, j>> of positions with key(seq[i]) < key(seq[j])
SortDesc(seq, below) ==
    LET F[n \in 0..Len(seq)] ==
            IF n = 0 THEN <<>>
            ELSE LET sorted == F[n - 1]
                     \* n goes after every position that is not below it
                     before == {i \in 1..Len(sorted) : <<sorted[i], n>> \notin below}
                     k == IF before = {} THEN 0
                          ELSE CHOOSE i \in before : \A j \in before : j <= i
                 IN  SubSeq(sorted, 1, k) \o <<n>> \o SubSeq(sorted, k + 1, Len(sorted))
    IN  [i \in 1..Len(seq) |-> seq[F[Len(seq)][i]]]

\* itertools.combinations: the k-element index tuples of lo..n, in order
RECURSIVE Combinations(_, _, _)
Combinations(lo, n, k) ==
    IF k = 0 THEN << <<>> >>
    ELSE IF lo > n THEN <<>>
    ELSE LET with == Combinations(lo + 1, n, k - 1)
         IN  [i \in 1..Len(with) |-> <<lo>> \o with[i]] \o Combinations(lo + 1, n, k)

RECURSIVE Power(_, _)
Power(f, n) == IF n = 0 THEN <<1, 1>> ELSE FMul(f, Power(f, n - 1))

Range(seq) == {seq[i] : i \in 1..Len(seq)}
Reverse(seq) == [i \in 1..Len(seq) |-> seq[Len(seq) + 1 - i]]

correlation_discount_without_league_penalty(signals, cfg) ==
    LET n == Len(signals)
        matched == {i \in 1..n : signals[i].match # None}
        dates == {signals[i].match.date : i \in matched}
        legs_part == Power(<<cfg.EXPRESS_CORRELATION_DISCOUNT, 100>>, IF n > 0 THEN n - 1 ELSE 0)
        day_part == IF Cardinality(dates) < Cardinality(matched)
                    THEN <<cfg.EXPRESS_SAME_DAY_PENALTY, 100>> ELSE <<1, 1>>
        discount == FMul(legs_part, day_part)
        r == Reduce(<<10000, discount[2]>>)
    IN  RoundDiv(discount[1] * r[1], r[2])

correlation_discount(signals, cfg) ==
    LET n == Len(signals)
        matched == {i \in 1..n : signals[i].match # None}
        leagues == {signals[i].match.league : i \in matched}
        dates == {signals[i].match.date : i \in matched}
        same_league_pairs == Cardinality(matched) - Cardinality(leagues)
        legs_part == Power(<<cfg.EXPRESS_CORRELATION_DISCOUNT, 100>>, IF n > 0 THEN n - 1 ELSE 0)
        league_part == Power(<<cfg.EXPRESS_SAME_LEAGUE_PENALTY, 100>>, same_league_pairs)
        day_part == IF Cardinality(dates) < Cardinality(matched)
                    THEN <<cfg.EXPRESS_SAME_DAY_PENALTY, 100>> ELSE <<1, 1>>
        discount == FMul(FMul(legs_part, league_part), day_part)
        r == Reduce(<<10000, discount[2]>>)
    IN  RoundDiv(discount[1] * r[1], r[2])

\* the sequences that take their i-th element from the i-th set
RECURSIVE Choices(_)
Choices(sets) ==
    IF sets = <<>> THEN {<<>>}
    ELSE {<<x>> \o rest : x \in sets[1], rest \in Choices(Tail(sets))}

ExpressBet(legs, discount) == [correlation_discount |-> discount, legs |-> legs]

RECURSIVE total_odds(_)
total_odds(legs) ==
    IF legs = <<>> THEN <<1, 1>>
    ELSE FMul(<<legs[1].bookmaker_odds, 100>>, total_odds(Tail(legs)))

RECURSIVE combined_probability(_)
combined_probability(legs) ==
    IF legs = <<>> THEN <<1, 1>>
    ELSE FMul(<<legs[1].model_probability, 100>>, combined_probability(Tail(legs)))

\* adjusted_ev + 1 = combined_probability * correlation_discount * total_odds
adjusted_return(express) ==
    FMul(FMul(combined_probability(express.legs), total_odds(express.legs)),
         <<express.correlation_discount, 10000>>)

express_eligible(signals, cfg) ==
    SelectSeq(signals, LAMBDA s :
        /\ EdgeAtLeast(s.edge, cfg.EXPRESS_MIN_LEG_EDGE)
        /\ s.model_probability >= cfg.EXPRESS_MIN_LEG_PROB
        /\ s.bookmaker_odds <= cfg.EXPRESS_MAX_LEG_ODDS
        /\ s.match # None)

\* the results build_express_bets can return: one per way the roundings of
\* the discounts and the order of equal adjusted EVs can fall
build_express_bets(signals, num_legs, max_expresses, cfg) ==
    LET eligible == express_eligible(signals, cfg)
        sorted == SortDesc(eligible,
                           {ij \in (1..Len(eligible)) \X (1..Len(eligible)) :
                              eligible[ij[1]].model_probability < eligible[ij[2]].model_probability})
        capped == SubSeq(sorted, 1, Min(Len(sorted), EXPRESS_POOL_CAP))
        combos == Combinations(1, Len(capped), num_legs)
        legs(c) == [i \in 1..Len(c) |-> capped[c[i]]]
        distinct == SelectSeq(combos, LAMBDA c :
                        \A i, j \in 1..Len(c) :
                            i # j => capped[c[i]].match.id # capped[c[j]].match.id)
        kept(discounts) ==
            SelectSeq([i \in 1..Len(distinct) |-> ExpressBet(legs(distinct[i]), discounts[i])],
                      LAMBDA e :
                        /\ LET f == adjusted_return(e) IN f[1] > f[2]
                        /\ LET o == total_odds(e.legs) IN o[1] * 100 <= cfg.EXPRESS_MAX_TOTAL_ODDS * o[2])
        \* two combinations whose exact adjusted EVs are equal can come out in
        \* either order: their float products may differ in the last bit
        ranked(discounts, order(_)) ==
            LET bets == order(kept(discounts))
            IN  SortDesc(bets,
                         {ij \in (1..Len(bets)) \X (1..Len(bets)) :
                            FLt(adjusted_return(bets[ij[1]]), adjusted_return(bets[ij[2]]))})
        top(seq) == SubSeq(seq, 1, Min(Len(seq), max_expresses))
        results(discounts) ==
            {top(ranked(discounts, LAMBDA seq : seq)), top(ranked(discounts, Reverse))}
    IN  IF Len(eligible) < num_legs THEN {<<>>}
        ELSE UNION {results(discounts) :
                      discounts \in Choices([i \in 1..Len(distinct) |->
                                               correlation_discount(legs(distinct[i]), cfg)])}

SystemBet(legs, system_size, total_legs) ==
    [legs |-> legs, system_size |-> system_size, total_legs |-> total_legs]

build_system(signals, total_legs, system_size, cfg) ==
    LET eligible == SelectSeq(signals, LAMBDA s :
                        /\ EdgeAtLeast(s.edge, cfg.EXPRESS_MIN_LEG_EDGE)
                        /\ s.model_probability >= SYSTEM_MIN_LEG_PROB
                        /\ s.match # None)
    IN  IF Len(eligible) < total_legs THEN None
        ELSE SystemBet(SubSeq(eligible, 1, total_legs), system_size, total_legs)

build_system_bets(signals, cfg) ==
    LET built == [i \in 1..Len(SystemConfigList) |->
                    build_system(signals, SystemConfigList[i][1], SystemConfigList[i][2], cfg)]
    IN  SelectSeq(built, LAMBDA system : system # None)

BuildExpressBets ==
    \E signals \in SignalLists, num_legs \in NumLegsInputs,
       max_expresses \in MaxExpressesInputs, cfg \in ExpressConfigs :
        Query("build_express_bets",
              [cfg |-> cfg, signals |-> signals,
               num_legs |-> num_legs, max_expresses |-> max_expresses],
              {[expresses |-> e] : e \in build_express_bets(signals, num_legs, max_expresses, cfg)})

\* the combinations whose discount build_express_bets asks for
ComboInputsOf(pool) ==
    {Picked(pool, keep) : keep \in {k \in SUBSET (1..Len(pool)) :
                                      /\ Cardinality(k) >= 1
                                      /\ \E n \in NumLegsInputs : Cardinality(k) <= n
                                      /\ \A i \in k : pool[i].match # None}}

CorrelationDiscount ==
    \E combo \in ComboInputsOf(SignalPool), cfg \in ExpressConfigs :
        Query("_correlation_discount",
              [cfg |-> cfg, combo |-> combo],
              {[discount |-> d] : d \in correlation_discount(combo, cfg)})

BuildSystemBets ==
    \E signals \in SignalLists, cfg \in ExpressConfigs :
        Query("build_system_bets",
              [cfg |-> cfg, signals |-> signals],
              {[systems |-> build_system_bets(signals, cfg)]})

NextExpress ==
    \/ BuildExpressBets
    \/ CorrelationDiscount
    \/ BuildSystemBets

SpecExpress == Init /\ [][NextExpress]_vars

----------------------------------------------------------------------------
(* De-vig methods: src/core/value_engine.py, src/core/ru_bookmakers.py *)

\* prices in hundredths; a price dict maps outcome names to prices
DevigPriceInputs == {-100, 0, 100, 200, 300, 400}
OutcomeSets == {{}, {"home"}, {"home", "away"}, {"home", "draw", "away"}}
OddsInputs == UNION {[names -> DevigPriceInputs] : names \in OutcomeSets}

\* fractions with any sign of the numerator
FAdd(f, g) ==
    LET l == (f[2] \div Gcd(f[2], g[2])) * g[2]
    IN  Reduce(<<f[1] * (l \div f[2]) + g[1] * (l \div g[2]), l>>)
FSub(f, g) == FAdd(f, <<-g[1], g[2]>>)
\* f / g for g # 0, cancelling before multiplying
FDiv(f, g) ==
    LET s == IF g[1] < 0 THEN -1 ELSE 1
        a == Gcd(Abs(f[1]), Abs(g[1]))
        b == Gcd(f[2], g[2])
    IN  IF f[1] = 0 THEN <<0, 1>>
        ELSE Reduce(<<s * (f[1] \div a) * (g[2] \div b),
                      (f[2] \div b) * (Abs(g[1]) \div a)>>)

\* sum(d.values()) of a dict of fractions
RECURSIVE FSum(_, _)
FSum(d, names) ==
    IF names = {} THEN <<0, 1>>
    ELSE LET k == CHOOSE k \in names : TRUE
         IN  FAdd(d[k], FSum(d, names \ {k}))
Total(d) == FSum(d, DOMAIN d)

\* math.sqrt and ** 0.5 of a fraction f >= 0, to three places (truncated)
SQRT_SCALE == 1000
RECURSIVE SqrtSearch(_, _, _)
SqrtSearch(f, lo, hi) ==
    \* lo^2 <= f * SQRT_SCALE^2 < hi^2
    IF hi - lo <= 1 THEN lo
    ELSE LET mid == (lo + hi) \div 2
         IN  IF FLt(f, <<mid * mid, SQRT_SCALE * SQRT_SCALE>>)
             THEN SqrtSearch(f, lo, mid)
             ELSE SqrtSearch(f, mid, hi)
Sqrt(f) == Reduce(<<SqrtSearch(f, 0, (f[1] \div f[2] + 1) * SQRT_SCALE), SQRT_SCALE>>)

EmptyDict == [k \in {} |-> <<0, 1>>]
Returned(value) == [value |-> value, raises |-> "None"]
Raised(exception) == [value |-> EmptyDict, raises |-> exception]

\* {k: 1.0 / v for k, v in odds.items() if v > 0}
implied_probabilities(odds) ==
    [k \in {k \in DOMAIN odds : odds[k] > 0} |-> Reduce(<<100, odds[k]>>)]

remove_overround_basic(odds) ==
    LET implied == implied_probabilities(odds)
        total == Total(implied)
    IN  IF total[1] <= 0 THEN Returned(EmptyDict)
        ELSE Returned([k \in DOMAIN implied |-> FDiv(implied[k], total)])

remove_overround_multiplicative(odds) ==
    LET implied == implied_probabilities(odds)
        overround == Total(implied)
    IN  IF overround[1] <= 0 THEN Returned(EmptyDict)
        ELSE Returned([k \in DOMAIN implied |-> FDiv(implied[k], overround)])

\* p ** k for the exponents whose power is exact or a square root
Pow(p, k) ==
    IF k = <<1, 2>> THEN Sqrt(p)
    ELSE IF k = <<1, 1>> THEN p
    ELSE FMul(p, p)

\* the bisection of [0.5, 2.0]: the first mid is 1; total > 1 moves lo up to
\* it, otherwise hi comes down to it, and k ends between lo and hi. The
\* exponents of that range that Pow computes stand for k.
power_exponents(implied) ==
    IF FLt(<<1, 1>>, Total(implied)) THEN {<<1, 1>>, <<2, 1>>}
    ELSE {<<1, 2>>, <<1, 1>>}

remove_overround_power(odds) ==
    LET implied == implied_probabilities(odds)
        fair(k) == [name \in DOMAIN implied |-> Pow(implied[name], k)]
    IN  IF DOMAIN implied = {} THEN {Returned(EmptyDict)}
        ELSE {Returned([name \in DOMAIN implied |->
                            FDiv(fair(k)[name], Total(fair(k)))]) :
                k \in power_exponents(implied)}

remove_overround_shin(odds) ==
    LET n == Cardinality(DOMAIN odds)
        implied == implied_probabilities(odds)
        overround == Total(implied)
        z == FDiv(FSub(overround, <<1, 1>>), <<n - 1, 1>>)
        one_minus_z == FSub(<<1, 1>>, z)
        discriminant(p) ==
            FAdd(FMul(z, z),
                 FDiv(FMul(FMul(<<4, 1>>, one_minus_z), FMul(p, p)), overround))
        \* the division by 2 * (1 - z) is reached by an outcome whose
        \* discriminant is not negative
        divides == {k \in DOMAIN implied : discriminant(implied[k])[1] >= 0}
        fair == [k \in DOMAIN implied |->
                    IF discriminant(implied[k])[1] < 0
                    THEN FDiv(implied[k], overround)
                    ELSE FDiv(FSub(Sqrt(discriminant(implied[k])), z),
                              FMul(<<2, 1>>, one_minus_z))]
        total == Total(fair)
    IN  IF n < 2 THEN remove_overround_basic(odds)
        ELSE IF FLeq(overround, <<1, 1>>) THEN Returned(implied)
        ELSE IF one_minus_z[1] = 0 /\ divides # {} THEN Raised("ZeroDivisionError")
        ELSE IF total[1] > 0
             THEN Returned([k \in DOMAIN fair |-> FDiv(fair[k], total)])
             ELSE Returned(fair)

\* MultiSportValueEngine.remove_overround_shin: its own filter (v > 1.0) and
\* fallbacks
ru_remove_overround_shin(odds) ==
    LET implied == [k \in {k \in DOMAIN odds : odds[k] > 100} |->
                        Reduce(<<100, odds[k]>>)]
        total_implied == Total(implied)
        n == Cardinality(DOMAIN implied)
        overround == total_implied
        z == FDiv(FSub(overround, <<1, 1>>), <<Max(n - 1, 1), 1>>)
        one_minus_z == FSub(<<1, 1>>, z)
        denominator == FMul(<<2, 1>>, one_minus_z)
        numerator(imp_p) ==
            FSub(Sqrt(FAdd(FMul(z, z),
                           FDiv(FMul(FMul(<<4, 1>>, one_minus_z),
                                     FMul(imp_p, imp_p)), overround))), z)
        fair == [k \in DOMAIN implied |->
                    IF denominator[1] > 0
                    THEN FDiv(numerator(implied[k]), denominator)
                    ELSE FDiv(implied[k], overround)]
        total_fair == Total(fair)
    IN  IF FLeq(total_implied, <<1, 1>>)
        THEN IF \E k \in DOMAIN odds : odds[k] = 0
             THEN Raised("ZeroDivisionError")
             ELSE Returned([k \in DOMAIN odds |->
                               IF odds[k] > 0 THEN Reduce(<<100, odds[k]>>)
                               ELSE Reduce(<<-100, -odds[k]>>)])
        ELSE IF total_fair[1] > 0
             THEN Returned([k \in DOMAIN fair |-> FDiv(fair[k], total_fair)])
             ELSE Returned(fair)

RemoveOverroundBasic ==
    \E odds \in OddsInputs :
        Query("remove_overround_basic", [odds |-> odds],
              {remove_overround_basic(odds)})

RemoveOverroundMultiplicative ==
    \E odds \in OddsInputs :
        Query("remove_overround_multiplicative", [odds |-> odds],
              {remove_overround_multiplicative(odds)})

RemoveOverroundPower ==
    \E odds \in OddsInputs :
        Query("remove_overround_power", [odds |-> odds],
              remove_overround_power(odds))

RemoveOverroundShin ==
    \E odds \in OddsInputs :
        Query("remove_overround_shin", [odds |-> odds],
              {remove_overround_shin(odds)})

RuRemoveOverroundShin ==
    \E odds \in OddsInputs :
        Query("MultiSportValueEngine.remove_overround_shin", [odds |-> odds],
              {ru_remove_overround_shin(odds)})

NextDevig ==
    \/ RemoveOverroundBasic
    \/ RemoveOverroundMultiplicative
    \/ RemoveOverroundPower
    \/ RemoveOverroundShin
    \/ RuRemoveOverroundShin

SpecDevig == Init /\ [][NextDevig]_vars

----------------------------------------------------------------------------
(* Rating system replay: EloRatingSystem.fit and update *)

\* the history fit() is given: matches of three teams, the last two on the
\* same day
HistoryPool ==
    <<HistoryMatch("A", "B", 2, 1, 1),
      HistoryMatch("B", "C", 0, 0, 2),
      HistoryMatch("C", "A", 1, 3, 2)>>

\* every list of different matches of the pool, in every order
HistoryLists ==
    LET orders == UNION {[1..n -> 1..Len(HistoryPool)] : n \in 0..Len(HistoryPool)}
    IN  {[i \in 1..Len(o) |-> HistoryPool[o[i]]] :
            o \in {o \in orders : \A i, j \in 1..Len(o) : i # j => o[i] # o[j]}}

elo_update(m) ==
    /\ LET self == update(EloState(ratings, games_played),
                          m.home, m.away, m.home_goals, m.away_goals)
       IN  /\ ratings' = self.ratings
           /\ games_played' = self.games_played
    /\ reply' = Reply("update", [match |-> m], None)
    /\ UNCHANGED <<fitted, params, teams, fit_log, last>>
    /\ UNCHANGED controller

EloFitHistory ==
    \E matches \in HistoryLists :
        /\ MatchesReplayed + Len(matches) <= MaxEloMatches
        /\ elo_fit(matches)

EloUpdate ==
    \E i \in 1..Len(HistoryPool) :
        /\ MatchesReplayed + 1 <= MaxEloMatches
        /\ elo_update(HistoryPool[i])

NextElo ==
    \/ EloFitHistory
    \/ EloUpdate

SpecElo == Init /\ [][NextElo]_vars

----------------------------------------------------------------------------
(* Express backtest: src/V2/fonbet_strategies.py.  Prices are in          *)
(* hundredths, money and ratios are exact fractions <<num, den>>.          *)

MaxBacktestBets == 2

\* {"odds": ..., "won": ...}
Leg(odds, won) == [odds |-> odds, won |-> won]
\* {"legs": [...], "date": "YYYY-MM-DD"}: the date as a day number, 0 for a
\* bet without one
HistoricalBet(legs, date) == [date |-> date, legs |-> legs]

HistoricalBetPool ==
    <<HistoricalBet(<<Leg(200, TRUE), Leg(200, TRUE)>>, 1),
      HistoricalBet(<<Leg(200, TRUE), Leg(200, FALSE)>>, 40),
      HistoricalBet(<<Leg(200, FALSE), Leg(150, TRUE)>>, 75),
      HistoricalBet(<<Leg(200, FALSE), Leg(200, FALSE)>>, 1),
      HistoricalBet(<<Leg(150, TRUE)>>, 0),
      HistoricalBet(<<Leg(200, FALSE)>>, 40),
      HistoricalBet(<<>>, 75)>>

HistoricalBetLists ==
    UNION {[1..n -> Range(HistoricalBetPool)] : n \in 0..MaxBacktestBets}

StakeInputs == {200}
InsuranceMinLegsInputs == {2}
InsuranceMinOddsInputs == {160}

FLess(f, g) == f[1] * g[2] < g[1] * f[2]

\* express_odds *= leg["odds"] over the legs
RECURSIVE leg_product(_)
leg_product(legs) ==
    IF legs = <<>> THEN <<1, 1>>
    ELSE FMul(leg_product(SubSeq(legs, 1, Len(legs) - 1)),
              Reduce(<<legs[Len(legs)].odds, 100>>))

leg_losses(legs) == Cardinality({i \in 1..Len(legs) : ~ legs[i].won})

\* eligible: len(legs) >= insurance_min_legs and every leg at
\* insurance_min_odds or more
insurance_eligible_without_min_odds(legs, insurance_min_legs, insurance_min_odds) ==
    Len(legs) >= insurance_min_legs
insurance_eligible(legs, insurance_min_legs, insurance_min_odds) ==
    /\ Len(legs) >= insurance_min_legs
    /\ \A i \in 1..Len(legs) : legs[i].odds >= insurance_min_odds

\* the locals of run_backtest before its loop
BacktestStart ==
    [total_staked |-> <<0, 1>>, total_returned |-> <<0, 1>>,
     insurance_triggered |-> 0, insurance_saved |-> <<0, 1>>, wins |-> 0,
     bankroll_history |-> <<(<<0, 1>>)>>, max_odds |-> <<0, 1>>,
     all_odds |-> <<>>]

\* one pass of the loop over historical_bets
backtest_bet(acc, bet, stake_per_express, insurance_enabled, insurance_min_legs, insurance_min_odds) ==
    LET legs == bet.legs
        express_odds == leg_product(legs)
        losses == leg_losses(legs)
        stake == <<stake_per_express, 1>>
        eligible == insurance_eligible(legs, insurance_min_legs, insurance_min_odds)
        insured == losses = 1 /\ insurance_enabled /\ eligible
        total_returned ==
            IF losses = 0 THEN FAdd(acc.total_returned, FMul(stake, express_odds))
            ELSE IF insured THEN FAdd(acc.total_returned, stake)
            ELSE acc.total_returned
        total_staked == FAdd(acc.total_staked, stake)
    IN  IF legs = <<>> THEN acc
        ELSE [total_staked |-> total_staked,
              total_returned |-> total_returned,
              insurance_triggered |->
                  acc.insurance_triggered + (IF insured THEN 1 ELSE 0),
              insurance_saved |->
                  IF insured THEN FAdd(acc.insurance_saved, stake)
                  ELSE acc.insurance_saved,
              wins |-> acc.wins + (IF losses = 0 THEN 1 ELSE 0),
              bankroll_history |->
                  Append(acc.bankroll_history, FSub(total_returned, total_staked)),
              max_odds |-> IF FLess(acc.max_odds, express_odds)
                           THEN express_odds ELSE acc.max_odds,
              all_odds |-> Append(acc.all_odds, express_odds)]

RECURSIVE backtest_loop(_, _, _, _, _)
backtest_loop(bets, stake_per_express, insurance_enabled, insurance_min_legs, insurance_min_odds) ==
    IF bets = <<>> THEN BacktestStart
    ELSE backtest_bet(backtest_loop(SubSeq(bets, 1, Len(bets) - 1),
                                    stake_per_express, insurance_enabled,
                                    insurance_min_legs, insurance_min_odds),
                      bets[Len(bets)], stake_per_express, insurance_enabled,
                      insurance_min_legs, insurance_min_odds)

\* the loop over bankroll_history: the largest fall from a running peak
max_drawdown(history) ==
    LET F[n \in 0..Len(history)] ==
            IF n = 0 THEN [peak |-> <<0, 1>>, max_dd |-> <<0, 1>>]
            ELSE LET peak == IF FLess(F[n - 1].peak, history[n])
                             THEN history[n] ELSE F[n - 1].peak
                     dd == FSub(peak, history[n])
                 IN  [peak |-> peak,
                      max_dd |-> IF FLess(F[n - 1].max_dd, dd)
                                 THEN dd ELSE F[n - 1].max_dd]
    IN  F[Len(history)].max_dd

\* the estimate of months from the dated bets
backtest_months(historical_bets) ==
    LET dates == {historical_bets[i].date : i \in 1..Len(historical_bets)} \ {0}
        dated == Cardinality({i \in 1..Len(historical_bets) :
                                 historical_bets[i].date # 0})
        first == CHOOSE d \in dates : \A e \in dates : d <= e
        last_date == CHOOSE d \in dates : \A e \in dates : e <= d
    IN  IF historical_bets = <<>> THEN 0
        ELSE IF dated >= 2 THEN Max(1, (last_date - first) \div 30)
        ELSE 1

RECURSIVE FSeqSum(_)
FSeqSum(seq) ==
    IF seq = <<>> THEN <<0, 1>>
    ELSE FAdd(FSeqSum(SubSeq(seq, 1, Len(seq) - 1)), seq[Len(seq)])

\* ExpressBacktester.run_backtest: the BacktestResult it returns
run_backtest(historical_bets, stake_per_express, insurance_enabled, insurance_min_legs, insurance_min_odds) ==
    LET acc == backtest_loop(historical_bets, stake_per_express,
                             insurance_enabled, insurance_min_legs,
                             insurance_min_odds)
        profit == FSub(acc.total_returned, acc.total_staked)
        n_bets == Len(historical_bets)
    IN  [profit |-> profit,
         total_staked |-> acc.total_staked,
         total_returned |-> acc.total_returned,
         insurance_triggered |-> acc.insurance_triggered,
         insurance_saved |-> acc.insurance_saved,
         max_drawdown |-> max_drawdown(acc.bankroll_history),
         total_bets |-> n_bets,
         roi |-> IF acc.total_staked[1] > 0 THEN FDiv(profit, acc.total_staked)
                 ELSE <<0, 1>>,
         win_rate |-> IF n_bets > 0 THEN Reduce(<<acc.wins, n_bets>>)
                      ELSE <<0, 1>>,
         best_express_odds |-> acc.max_odds,
         avg_express_odds |->
             IF acc.all_odds # <<>>
             THEN FDiv(FSeqSum(acc.all_odds), <<Len(acc.all_odds), 1>>)
             ELSE <<0, 1>>,
         months |-> backtest_months(historical_bets)]

RunBacktest ==
    \E historical_bets \in HistoricalBetLists, stake_per_express \in StakeInputs,
       insurance_enabled \in BOOLEAN,
       insurance_min_legs \in InsuranceMinLegsInputs,
       insurance_min_odds \in InsuranceMinOddsInputs :
        Query("run_backtest",
              [insurance_min_legs |-> insurance_min_legs,
               insurance_min_odds |-> insurance_min_odds,
               stake_per_express |-> stake_per_express,
               insurance_enabled |-> insurance_enabled,
               historical_bets |-> historical_bets],
              {run_backtest(historical_bets, stake_per_express,
                            insurance_enabled, insurance_min_legs,
                            insurance_min_odds)})

NextBacktest == RunBacktest

SpecBacktest == Init /\ [][NextBacktest]_vars

----------------------------------------------------------------------------
(* The scan: SignalGenerator.run_scan and run_continuous of               *)
(* src/core/signal_generator.py.  A scan is suspended at its awaits; the   *)
(* settlements, the commands and the other scan run while it is.  Edges    *)
(* are in percent.                                                         *)

\* betting_config of src/config/settings.py
MIN_VALUE_EDGE == 2
AUTO_BET_MAX_PER_SCAN == 5

\* the number of bets the ledger holds at most
MaxScanBets == 7

\* f"{home} vs {away} ({outcome})" of the value bets a scan can find, and
\* the fresh ids of the signals of each scan
MatchInfos == <<"A vs B (home)", "C vs D (away)", "E vs F (draw)",
                "G vs H (home)", "I vs J (away)", "K vs L (home)">>
ScanSignalIds ==
    [continuous |-> <<"c1", "c2", "c3", "c4", "c5", "c6", "c7">>,
     command    |-> <<"m1", "m2", "m3", "m4", "m5", "m6", "m7">>]

\* the k-th signal of find_value_bets in scan n, on the fixture and outcome
\* key: model probability 0.60 at the price 2.00
Finding(n, k, key, edge) ==
    [id |-> ScanSignalIds[n][k], bookmaker_odds |-> 200,
     edge |-> edge, model_probability |-> 60, match_info |-> MatchInfos[key]]

\* two value bets and a signal below MIN_VALUE_EDGE
FewFindings(n) ==
    {<<Finding(n, 1, 1, 5), Finding(n, 2, 2, 9), Finding(n, 3, 3, 1)>>}

\* seven value bets on six keys: the second key is quoted twice, either
\* with the weakest edge of the scan or among the strongest
ManyFindings(n) ==
    {<<Finding(n, 1, 1, 5), Finding(n, 2, 2, 9), Finding(n, 3, 3, 8),
       Finding(n, 4, 4, 7), Finding(n, 5, 5, 6), Finding(n, 6, 6, 4),
       Finding(n, 7, 2, 3)>>,
     <<Finding(n, 1, 1, 5), Finding(n, 2, 2, 9), Finding(n, 3, 3, 4),
       Finding(n, 4, 4, 7), Finding(n, 5, 5, 6), Finding(n, 6, 6, 3),
       Finding(n, 7, 2, 8)>>}

\* BetRecord.match_info as record_bet(..., match_info=info) stores it: the
\* key of the signal the record was made for
match_info(signal_id) ==
    LET k == CHOOSE k \in 1..7 : \E n \in ScanIds : ScanSignalIds[n][k] = signal_id
    IN  MatchInfos[IF k = 7 THEN 2 ELSE k]

\* step 3 of run_scan: s.stake_amount = self.bankroll.kelly_single(s)
SizedSignals(findings) ==
    LET stake(i) == kelly_single(findings[i].model_probability,
                                 findings[i].bookmaker_odds)
        choices == {st \in [DOMAIN findings -> UNION {stake(i) : i \in DOMAIN findings}] :
                       \A i \in DOMAIN findings : st[i] \in stake(i)}
    IN  {[i \in DOMAIN findings |->
             [id |-> findings[i].id, stake_amount |-> st[i],
              bookmaker_odds |-> findings[i].bookmaker_odds, edge |-> findings[i].edge,
              match_info |-> findings[i].match_info]] : st \in choices}

\* s.stake_amount > 0 and s.edge >= betting_config.MIN_VALUE_EDGE
IsActive(s) == s.stake_amount > 0 /\ s.edge >= MIN_VALUE_EDGE

\* active.sort(key=lambda x: x.edge * x.kelly_stake, reverse=True): stable,
\* kelly_stake being stake_amount over the bankroll the scan sized on
sorted_by_ev(active) ==
    LET key(s) == s.edge * s.stake_amount
        F[n \in 0..Len(active)] ==
            IF n = 0 THEN <<>>
            ELSE LET done == F[n - 1]
                     at == Cardinality({i \in 1..Len(done) :
                                           key(done[i]) >= key(active[n])})
                 IN  SubSeq(done, 1, at) \o <<active[n]>>
                     \o SubSeq(done, at + 1, Len(done))
    IN  F[Len(active)]

\* candidates = active[:max_bets]
Candidates(active) ==
    SubSeq(sorted_by_ev(active), 1, Min(Len(active), AUTO_BET_MAX_PER_SCAN))

\* the auto-bet loop that bets every candidate, placed before or not
SkipPlaced_without_check(candidates) == candidates

\* if info in self._placed_keys: continue
SkipPlaced(candidates) ==
    LET fresh == {i \in 1..Len(candidates) :
                     candidates[i].match_info \notin placed_keys}
    IN  IF fresh = {} THEN <<>>
        ELSE SubSeq(candidates, CHOOSE i \in fresh : \A j \in fresh : i <= j,
                    Len(candidates))

\* the return value of check_stop_conditions
StopConditionHolds ==
    LET up == UpdatePeriods(daily_pnl, weekly_pnl)
    IN  StopCondition(bankroll, peak_bankroll, up.daily, up.weekly,
                      losing_streak) # ""

\* the bankroll manager's state
manager == <<bankroll, peak_bankroll, bet_history, daily_pnl, weekly_pnl,
             daily_reset, losing_streak, is_stopped, stop_reason, now,
             settle_log, settled_today, settled_this_week>>

\* run_scan is called and suspends at the fetch of the odds
StartScan(n) ==
    scans' = [scans EXCEPT ![n] = [IdleScan EXCEPT !.pc = "fetch"]]

\* run_scan returns; run_continuous goes on to its sleep
ReturnScan(n) ==
    /\ scans' = [scans EXCEPT ![n] = IdleScan]
    /\ monitor' = IF n = "continuous" THEN "sleeping" ELSE monitor

\* one iteration of run_continuous, up to its next await
ContinuousIterate ==
    /\ monitor = "loop"
    /\ check_stop_conditions(bankroll, peak_bankroll, daily_pnl, weekly_pnl,
                             losing_streak)
    /\ IF StopConditionHolds
       THEN /\ monitor' = "paused"
            /\ UNCHANGED scans
       ELSE /\ monitor' = "scanning"
            /\ StartScan("continuous")
    /\ last' = Call("run_continuous", "", "", 0)
    /\ UNCHANGED <<bankroll, peak_bankroll, bet_history, losing_streak, now,
                   settle_log, settled_today, settled_this_week, placed_keys,
                   requests>>
    /\ UNCHANGED predictors

\* asyncio.sleep(3600) or asyncio.sleep(interval) is over
ContinuousWake ==
    /\ monitor \in {"paused", "sleeping"}
    /\ monitor' = "loop"
    /\ last' = Call("sleep", "", "", 0)
    /\ UNCHANGED <<manager, placed_keys, scans, requests>>
    /\ UNCHANGED predictors

\* the bot's /scan command and the dashboard's /api/scan call run_scan
CommandScan ==
    /\ scans["command"].pc = "idle"
    /\ StartScan("command")
    /\ last' = Call("cmd_scan", "", "", 0)
    /\ UNCHANGED <<manager, placed_keys, monitor, requests>>
    /\ UNCHANGED predictors

\* run_scan from the fetched odds to the enrichment it awaits: the stakes
\* are computed and the active signals chosen; with none, nothing is
\* awaited or bet
ScanSize(n, found) ==
    /\ scans[n].pc = "fetch"
    /\ \E findings \in found : \E signals \in SizedSignals(findings) :
          LET active == SelectSeq(signals, IsActive)
          IN  IF active = <<>>
              THEN ReturnScan(n)
              ELSE /\ scans' = [scans EXCEPT ![n].pc = "enrich",
                                             ![n].active = active]
                   /\ UNCHANGED monitor
    /\ last' = Call("run_scan", "", "", 0)
    /\ UNCHANGED <<manager, placed_keys, requests>>
    /\ UNCHANGED predictors

\* the auto-bet step from one await to the next: on from the enrichment
\* or from the notification of the bet before, over the candidates already
\* placed, to the next bet and its notification or to the end of the scan
ScanAutoBet(n) ==
    /\ scans[n].pc \in {"enrich", "notify"}
    /\ LET candidates == IF scans[n].pc = "enrich"
                         THEN Candidates(scans[n].active)
                         ELSE scans[n].candidates
           rest == SkipPlaced(candidates)
       IN  IF rest = <<>>
           THEN /\ ReturnScan(n)
                /\ last' = Call("run_scan", "", "", 0)
                /\ UNCHANGED <<manager, placed_keys>>
                /\ UNCHANGED predictors
           ELSE /\ Len(bet_history) < MaxScanBets
                /\ record_bet(Head(rest).id, Head(rest).stake_amount,
                              Head(rest).bookmaker_odds)
                /\ placed_keys' = placed_keys \cup {Head(rest).match_info}
                /\ scans' = [scans EXCEPT ![n].pc = "notify",
                                          ![n].candidates = Tail(rest),
                                          ![n].placed = @ + 1]
                /\ UNCHANGED monitor
    /\ UNCHANGED requests

\* a settlement of a bet of the ledger arrives from the bot or the dashboard
SettleScanBet ==
    /\ \E i \in 1..Len(bet_history), result \in ResultInputs :
          settle_bet(bet_history[i].signal_id, result)
    /\ UNCHANGED <<requests, scanner>>

\* the process is started again: SignalGenerator.__init__ on the ledger the
\* bankroll manager reloaded
Restart ==
    /\ placed_keys' = {match_info(bet_history[i].signal_id) :
                          i \in 1..Len(bet_history)}
    /\ scans' = [n \in ScanIds |-> IdleScan]
    /\ monitor' = "loop"
    /\ last' = Call("init", "", "", 0)
    /\ UNCHANGED <<manager, requests>>
    /\ UNCHANGED predictors

ScanSizeFew == \E n \in ScanIds : ScanSize(n, FewFindings(n))
ScanSizeMany == \E n \in ScanIds : ScanSize(n, ManyFindings(n))
AutoBet == \E n \in ScanIds : ScanAutoBet(n)

\* the scan among settlements, stop commands and the clock
NextScan ==
    \/ ContinuousIterate
    \/ ContinuousWake
    \/ ScanSizeFew
    \/ AutoBet
    \/ SettleScanBet
    \/ cmd_stop
    \/ reset_stop
    \/ Tick

SpecScan == Init /\ [][NextScan]_vars

\* scans that overlap, and restarts, on a slate of seven value bets
NextAutoBet ==
    \/ ContinuousIterate
    \/ ContinuousWake
    \/ CommandScan
    \/ ScanSizeMany
    \/ AutoBet
    \/ Restart

SpecAutoBet == Init /\ [][NextAutoBet]_vars

----------------------------------------------------------------------------
(* Properties *)

HasRecord(id) == \E i \in 1..Len(bet_history) : bet_history[i].signal_id = id
HasPending(id) ==
    \E i \in 1..Len(bet_history) :
        bet_history[i].signal_id = id /\ bet_history[i].result = "pending"
HasSettled(id) ==
    \E i \in 1..Len(bet_history) :
        bet_history[i].signal_id = id /\ bet_history[i].result # "pending"

SizingOps == {"kelly_single", "kelly_express", "kelly_system"}
ProbRange == {0, 30, 40, 55, 58, 60, 70, 100}
PriceRange == {100, 105, 184, 200, 550}
ComboRange == {1, 3, 4, 10}

\* C1: a settle_bet call for a signal id that already has a settled record
\* does not credit the balance again and leaves the daily and weekly P&L,
\* the peak and the losing streak as they were.
C1_SettleIdempotent ==
    [][(last'.op = "settle_bet" /\ HasSettled(last'.id))
        => /\ bankroll' = bankroll
           /\ daily_pnl' = daily_pnl
           /\ weekly_pnl' = weekly_pnl
           /\ peak_bankroll' = peak_bankroll
           /\ losing_streak' = losing_streak]_vars

\* C2: a record_bet call for a signal id that already has a ledger record
\* neither debits the balance nor adds a record.
C2_RecordIdempotent ==
    [][(last'.op = "record_bet" /\ HasRecord(last'.id))
        => /\ bankroll' = bankroll
           /\ bet_history' = bet_history]_vars

\* C3: while the controller is halted, kelly_single, kelly_express and
\* kelly_system return 0 for every input, and so did the sizing call that
\* has just completed.
C3_HaltedSizingIsZero ==
    is_stopped =>
        /\ \A p \in ProbRange, o \in PriceRange :
              kelly_single(p, o) = {0} /\ kelly_express(p, o) = {0}
        /\ \A n \in ComboRange : kelly_system(n) = {0}
        /\ (last.op \in SizingOps => last.ret = 0)

\* a sizing call completed on a halted bankroll that could fund a stake
C3_Witness ==
    /\ is_stopped
    /\ last.op \in SizingOps
    /\ bankroll * MAX_BET_PERCENT >= MIN_BET_AMOUNT * 100

\* C4: a set halt flag survives every step but reset_stop, and reset_stop
\* clears the flag and the losing streak together.
C4_HaltOnlyClearedByReset ==
    [][/\ (is_stopped /\ last'.op # "reset_stop" => is_stopped')
       /\ (last'.op = "reset_stop" => ~is_stopped' /\ losing_streak' = 0)]_vars

\* the halt outlived its cause: halted by the daily stop-loss, the day has
\* rolled over and the re-evaluation finds no condition holding
C4_Witness ==
    /\ is_stopped
    /\ stop_reason = "daily"
    /\ last.op = "check_stop_conditions"
    /\ StopCondition(bankroll, peak_bankroll, daily_pnl, weekly_pnl,
                     losing_streak) = ""

\* the five halt conditions, on the current state
HaltConditionHolds ==
    \/ -Min(daily_pnl, 0) * 100 > MAX_DAILY_LOSS_PERCENT * bankroll
    \/ -Min(weekly_pnl, 0) * 100 > MAX_WEEKLY_LOSS_PERCENT * bankroll
    \/ losing_streak >= MAX_LOSING_STREAK
    \/ bankroll * 100 < BANKRUPTCY_THRESHOLD * initial_bankroll
    \/ (peak_bankroll > 0
        /\ (peak_bankroll - bankroll) * 100 > DRAWDOWN_STOP * peak_bankroll)

\* C5 as claimed: after a record_bet or settle_bet call, a halt condition
\* that holds means the controller is halted.
C5_HaltedAfterRecordOrSettle ==
    (last.op \in {"record_bet", "settle_bet"} /\ HaltConditionHolds)
        => is_stopped

\* C5: after a settle_bet call that settled a pending record, a halt
\* condition that holds means the controller is halted.
C5_HaltedAfterSettlement ==
    [][(last'.op = "settle_bet" /\ HasPending(last'.id))
        => (HaltConditionHolds' => is_stopped')]_vars

\* a settlement has just crossed the daily stop-loss and halted
C5_Witness ==
    /\ last.op = "settle_bet"
    /\ last.res = "lost"
    /\ HaltConditionHolds
    /\ is_stopped
    /\ stop_reason = "daily"

LostCount ==
    Cardinality({i \in 1..Len(bet_history) : bet_history[i].result = "lost"})

\* C6: on a fresh bankroll whose small bets are all settled as losses, the
\* controller is halted exactly when 7 or more losses have been settled.
C6_HaltedAtSeventhLoss ==
    /\ losing_streak = LostCount
    /\ is_stopped <=> (LostCount >= MAX_LOSING_STREAK)

\* the seventh loss has just been settled
C6_Witness ==
    /\ LostCount = MAX_LOSING_STREAK
    /\ last.op = "settle_bet"
    /\ is_stopped
    /\ stop_reason = "streak"
    /\ ~(-Min(daily_pnl, 0) * 100 > MAX_DAILY_LOSS_PERCENT * bankroll)

\* C7: of two settle requests for the same signal id that were in flight
\* together, at most one changes the balance, P&L, peak or streak.
C7_OneConcurrentSettlementWins ==
    ~ \E a \in handled, b \in handled :
          /\ a.req # b.req
          /\ a.signal_id = b.signal_id
          /\ a.effect
          /\ b.effect

\* C8: the stake returned by kelly_single is 0 or within
\* [MIN_BET_AMOUNT, MAX_BET_PERCENT x balance], and the stake returned by
\* kelly_express is 0 or within [MIN_BET_AMOUNT, MAX_EXPRESS_BET_PERCENT x
\* balance].
C8_StakeWithinLimits ==
    /\ last.op = "kelly_single"
         => \/ last.ret = 0
            \/ /\ last.ret >= MIN_BET_AMOUNT
               /\ last.ret * 100 <= MAX_BET_PERCENT * bankroll
    /\ last.op = "kelly_express"
         => \/ last.ret = 0
            \/ /\ last.ret >= MIN_BET_AMOUNT
               /\ last.ret * 100 <= MAX_EXPRESS_BET_PERCENT * bankroll

\* C9: a settle_bet call for a signal id without a pending record leaves
\* the balance, the ledger, the P&L, the peak, the streak and the halt flag
\* as they were.
C9_SettleWithoutPendingChangesNothing ==
    [][(last'.op = "settle_bet" /\ ~HasPending(last'.id))
        => UNCHANGED <<bankroll, bet_history, daily_pnl, weekly_pnl,
                       daily_reset, peak_bankroll, losing_streak, is_stopped,
                       stop_reason, settle_log>>]_vars

\* settle_bet(id, "won") has just returned and every record of id is lost:
\* the call met only settled records
C9_Witness ==
    /\ last.op = "settle_bet"
    /\ last.res = "won"
    /\ HasRecord(last.id)
    /\ \A i \in 1..Len(bet_history) :
          bet_history[i].signal_id = last.id => bet_history[i].result = "lost"

\* the losses since the most recent win, in a log of settlement results
RECURSIVE LossesSinceWin(_)
LossesSinceWin(log) ==
    IF log = <<>> THEN 0
    ELSE LET r    == log[Len(log)]
             rest == SubSeq(log, 1, Len(log) - 1)
         IN  IF r = "won" THEN 0
             ELSE IF r = "lost" THEN 1 + LossesSinceWin(rest)
             ELSE LossesSinceWin(rest)

\* C10: a settlement sets the streak to 0 when won, adds 1 when lost and
\* leaves it when void; the streak is the number of losses since the most
\* recent win or reset.
C10_StreakCountsLosses ==
    /\ [](losing_streak = LossesSinceWin(settle_log))
    /\ [][(last'.op = "settle_bet" /\ HasPending(last'.id))
           => /\ last'.res = "won" => losing_streak' = 0
              /\ last'.res = "lost" => losing_streak' = losing_streak + 1
              /\ last'.res = "void" => losing_streak' = losing_streak]_vars

\* a loss, then a void settlement: the streak is still 1
C10_Witness ==
    /\ last.op = "settle_bet"
    /\ settle_log = <<"lost", "void">>
    /\ losing_streak = 1

\* C11: on an active bankroll, for every configured system the stake per
\* combination times the number of combinations is at most
\* MAX_SYSTEM_BET_PERCENT of the balance.
C11_SystemTotalWithinCeiling ==
    ~is_stopped =>
        \A system \in SYSTEM_CONFIGS :
            \A stake \in kelly_system(NumCombinations(system)) :
                stake * NumCombinations(system) * 100
                    <= MAX_SYSTEM_BET_PERCENT * bankroll


\* the claimed streak reduction s
C12_s(ls) ==
    IF ls >= 5 THEN <<1, 2>>
    ELSE IF ls \in {3, 4} THEN <<3, 4>>
    ELSE <<1, 1>>

\* the drawdown from the peak as a fraction, 0 without a positive peak
C12_drawdown(b, pk) ==
    IF pk <= 0 THEN <<0, 1>> ELSE Reduce(<<pk - b, pk>>)

\* the claimed drawdown reduction d
C12_d(b, pk) ==
    IF ~FLeq(C12_drawdown(b, pk), <<15, 100>>) THEN <<1, 2>>
    ELSE IF ~FLeq(C12_drawdown(b, pk), <<10, 100>>) THEN <<3, 4>>
    ELSE <<1, 1>>

\* KELLY_FRACTION x s x d
C12_fraction(ls, b, pk) ==
    Reduce(<<KELLY_FRACTION * C12_s(ls)[1] * C12_d(b, pk)[1],
             100 * C12_s(ls)[2] * C12_d(b, pk)[2]>>)

\* C12: the adaptive fraction is KELLY_FRACTION x s x d, never exceeds
\* KELLY_FRACTION, and does not increase over a step in which neither the
\* losing streak nor the drawdown shrinks.
C12_AdaptiveFractionCompounds ==
    /\ [](/\ adaptive_kelly_fraction
               = C12_fraction(losing_streak, bankroll, peak_bankroll)
          /\ FLeq(adaptive_kelly_fraction, <<KELLY_FRACTION, 100>>))
    /\ [][(/\ losing_streak' >= losing_streak
           /\ FLeq(C12_drawdown(bankroll, peak_bankroll),
                   C12_drawdown(bankroll', peak_bankroll')))
            => FLeq(C12_fraction(losing_streak', bankroll', peak_bankroll'),
                    C12_fraction(losing_streak, bankroll, peak_bankroll))]_vars

\* five losses in a row have cost more than 15% of the peak: both
\* reductions are at their strongest and the fraction is 0.05
C12_Witness ==
    /\ last.op = "settle_bet"
    /\ losing_streak >= 5
    /\ ~FLeq(C12_drawdown(bankroll, peak_bankroll), <<15, 100>>)
    /\ adaptive_kelly_fraction = <<1, 20>>


C14_PredictionOnlyFromLatestFit ==
    /\ \A fx \in Fixtures :
          predict_match(fx[1], fx[2]) # None
              => /\ fit_log # <<>>
                 /\ fit_log[Len(fit_log)]
                 /\ predict_match(fx[1], fx[2]).fit = Len(fit_log)
                 /\ {fx[1], fx[2]} \subseteq teams
    /\ (reply.op = "predict_match" /\ reply.ret # None)
          => (fit_log # <<>> /\ fit_log[Len(fit_log)]
              /\ reply.ret.fit = Len(fit_log))

\* a fit converged, the next one did not, and predict_match has just
\* returned no result for a fixture the earlier parameters cover
C14_Witness ==
    /\ fit_log = <<TRUE, FALSE>>
    /\ params # None
    /\ reply.op = "predict_match"
    /\ {reply.arg.home, reply.arg.away} \subseteq params.teams
    /\ reply.ret = None

\* the fixture of the last call has a team that holds no rating
UnratedFixture == ~({reply.arg.home, reply.arg.away} \subseteq DOMAIN ratings)

\* C15: for a fixture with a team that holds no rating, expected_score
\* returns no result, and the ensemble's result has no rating source among
\* its sources.
C15_UnratedTeamExcludesElo ==
    /\ (reply.op = "expected_score" /\ UnratedFixture) => reply.ret = None
    /\ (reply.op = "predict" /\ UnratedFixture /\ reply.ret # Empty)
          => "elo" \notin DOMAIN reply.ret.sources

\* the sources that produced a result for the fixture of the predict call
\* that has just returned
C16_Contributing ==
    (IF predict_match(reply.arg.home, reply.arg.away) # None
     THEN {"dixon_coles"} ELSE {})
    \cup {"elo"}
    \cup (IF reply.arg.market_probs # Empty THEN {"market_consensus"} ELSE {})

\* the sum of weight x probability over the contributing sources, and the
\* sum of their weights
C16_Sum(outcome) ==
    Weighted([s \in C16_Contributing |-> reply.ret.sources[s]],
             ENSEMBLE_WEIGHTS, outcome)
C16_Weight ==
    TotalWeight([s \in C16_Contributing |-> 0], ENSEMBLE_WEIGHTS)

\* C16: the result of predict has exactly the sources that produced a
\* result, each outcome is their average weighted by weight / sum of their
\* weights (to 4 places), home + draw + away is 1, and model_count is the
\* number of those sources.
C16_BlendOfContributingSources ==
    (reply.op = "predict" /\ reply.ret # Empty) =>
        /\ DOMAIN reply.ret.sources = C16_Contributing
        /\ reply.ret.model_count = Cardinality(C16_Contributing)
        /\ \A o \in {"home", "draw", "away"} :
              reply.ret[o] \in RoundDiv(C16_Sum(o), C16_Weight)
        /\ reply.ret.home + reply.ret.draw + reply.ret.away = 10000


\* the distinct bookmakers of a fixture that quote an outcome's market
C17_QuotingBookmakers(match, outcome) ==
    {match.bookmaker_odds[i].bookmaker :
        i \in {j \in 1..Len(match.bookmaker_odds) :
                 outcome \in DOMAIN match.bookmaker_odds[j].outcomes}}

\* C17: every signal the value detector emits has its edge within
\* [MIN_VALUE_EDGE, MAX_VALUE_EDGE], its best price within [MIN_ODDS, MAX_ODDS]
\* and at least MIN_BOOKMAKERS distinct bookmakers quoting its market
C17_SignalPassedTheThreeTests ==
    reply.op = "_analyze_match" =>
        \A s \in reply.ret.signals :
            /\ EdgeAtLeast(s.edge, reply.arg.cfg.MIN_VALUE_EDGE)
            /\ EdgeAtMost(s.edge, reply.arg.cfg.MAX_VALUE_EDGE)
            /\ s.bookmaker_odds >= reply.arg.cfg.MIN_ODDS
            /\ s.bookmaker_odds <= reply.arg.cfg.MAX_ODDS
            /\ Cardinality(C17_QuotingBookmakers(reply.arg.match, s.outcome))
                   >= reply.arg.cfg.MIN_BOOKMAKERS

\* the reference bookmaker's implied probability concurs with the model
C18_Concurs(s) ==
    check_sharp_bookmaker(reply.arg.match, s.outcome, s.model_probability, reply.arg.cfg)

C18_Tier(s) ==
    IF /\ s.model_count >= 3
       /\ \/ EdgeAtLeast(s.edge, reply.arg.cfg.MIN_CONFIRMED_EDGE)
          \/ C18_Concurs(s)
    THEN "High"
    ELSE IF s.model_count >= 2 /\ EdgeAtLeast(s.edge, reply.arg.cfg.MIN_VALUE_EDGE)
    THEN "Medium"
    ELSE "Low"

\* C18: a signal is High iff at least 3 sources contributed and its edge
\* reaches MIN_CONFIRMED_EDGE or the sharp bookmaker concurs, otherwise Medium
\* iff at least 2 sources contributed and its edge reaches MIN_VALUE_EDGE,
\* otherwise Low
C18_ConfidenceTier ==
    reply.op = "_analyze_match" =>
        \A s \in reply.ret.signals : s.confidence_level = C18_Tier(s)

C19_Fixtures(legs) == {legs[i].match.id : i \in 1..Len(legs)}

\* C19: every express returned for a requested size k has k legs from k
\* distinct fixtures, adjusted EV > 0 and total price within
\* EXPRESS_MAX_TOTAL_ODDS, and no system returned has two legs from one fixture
C19_MultiLegBetsUseEachFixtureOnce ==
    /\ reply.op = "build_express_bets" =>
        \A e \in Range(reply.ret.expresses) :
            /\ Len(e.legs) = reply.arg.num_legs
            /\ Cardinality(C19_Fixtures(e.legs)) = reply.arg.num_legs
            /\ LET f == FMul(FMul(combined_probability(e.legs), <<e.correlation_discount, 10000>>),
                             total_odds(e.legs))
               IN  f[1] > f[2]
            /\ LET o == total_odds(e.legs)
               IN  o[1] * 100 <= reply.arg.cfg.EXPRESS_MAX_TOTAL_ODDS * o[2]
    /\ reply.op = "build_system_bets" =>
        \A system \in Range(reply.ret.systems) :
            Cardinality(C19_Fixtures(system.legs)) = Len(system.legs)

\* the unordered pairs of legs that share a league
C20_LeaguePairs(combo) ==
    {pair \in SUBSET (1..Len(combo)) :
        /\ Cardinality(pair) = 2
        /\ \A i, j \in pair : combo[i].match.league = combo[j].match.league}

C20_AllSameDay(combo) ==
    /\ Len(combo) >= 2
    /\ \A i, j \in 1..Len(combo) : combo[i].match.date = combo[j].match.date

C20_Discount(combo, cfg) ==
    FMul(FMul(Power(<<cfg.EXPRESS_CORRELATION_DISCOUNT, 100>>, Len(combo) - 1),
              Power(<<cfg.EXPRESS_SAME_LEAGUE_PENALTY, 100>>, Cardinality(C20_LeaguePairs(combo)))),
         IF C20_AllSameDay(combo) THEN <<cfg.EXPRESS_SAME_DAY_PENALTY, 100>> ELSE <<1, 1>>)

\* C20: the correlation discount of n legs is
\* EXPRESS_CORRELATION_DISCOUNT^(n-1) * EXPRESS_SAME_LEAGUE_PENALTY^(pairs of
\* legs sharing a league) * (EXPRESS_SAME_DAY_PENALTY if all legs fall on one
\* day), to the four places the result keeps, and lies in (0, 1]
C20_CorrelationDiscountFormula ==
    reply.op = "_correlation_discount" =>
        LET f == C20_Discount(reply.arg.combo, reply.arg.cfg)
            r == Reduce(<<10000, f[2]>>)
        IN  /\ reply.ret.discount \in RoundDiv(f[1] * r[1], r[2])
            /\ reply.ret.discount > 0
            /\ reply.ret.discount <= 10000

C21_Dates(combo) == [i \in 1..Len(combo) |-> combo[i].match.date]

C21_SharesLeague(combo) ==
    \E i, j \in 1..Len(combo) : i # j /\ combo[i].match.league = combo[j].match.league

\* a call on legs of distinct leagues followed by a call on as many legs, on
\* the same days, two of which share a league
C21_Comparable(r, s) ==
    /\ r.op = "_correlation_discount"
    /\ s.op = "_correlation_discount"
    /\ r.arg.cfg = s.arg.cfg
    /\ Len(r.arg.combo) = Len(s.arg.combo)
    /\ C21_Dates(r.arg.combo) = C21_Dates(s.arg.combo)
    /\ ~ C21_SharesLeague(r.arg.combo)
    /\ C21_SharesLeague(s.arg.combo)

\* C21: with the leg count and the calendar days fixed, legs that share a
\* league get a strictly lower correlation discount than legs of different
\* leagues
C21_SameLeagueStrictlyLower ==
    [][C21_Comparable(reply, reply') => reply'.ret.discount < reply.ret.discount]_vars

C21_Witness ==
    /\ reply.op = "_correlation_discount"
    /\ Len(reply.arg.combo) = 2
    /\ C21_SharesLeague(reply.arg.combo)
    /\ \E other \in ComboInputsOf(SignalPool) :
        /\ Len(other) = 2
        /\ C21_Dates(other) = C21_Dates(reply.arg.combo)
        /\ ~ C21_SharesLeague(other)
        /\ \A d \in correlation_discount(other, reply.arg.cfg) : reply.ret.discount < d

DevigMethods ==
    {"remove_overround_basic", "remove_overround_multiplicative",
     "remove_overround_power", "remove_overround_shin"}

C22_Precondition(odds) ==
    /\ Cardinality(DOMAIN odds) >= 2
    /\ \A k \in DOMAIN odds : odds[k] > 0
    /\ FLt(<<1, 1>>, Total(implied_probabilities(odds)))

\* |sum - 1| <= 1e-6
C22_WithinTolerance(value) ==
    LET s == Total(value)
    IN  ~ FLt(<<1, 1000000>>, <<Abs(s[1] - s[2]), s[2]>>)

\* C22: for each de-vig method (basic, multiplicative, power, shin, and the
\* shin of the multi-sport engine), given at least 2 positive prices whose
\* implied probabilities sum to more than 1, the call returns fair
\* probabilities for every input outcome and they sum to 1 within 1e-6
C22_FairProbabilitiesSumToOne ==
    /\ reply.op \in DevigMethods \cup {"MultiSportValueEngine.remove_overround_shin"}
    /\ C22_Precondition(reply.arg.odds)
    => /\ reply.ret.raises = "None"
       /\ DOMAIN reply.ret.value = DOMAIN reply.arg.odds
       /\ C22_WithinTolerance(reply.ret.value)

\* C23: no de-vig method raises on any input; with fewer than 2 prices Shin
\* returns the Basic result, and with at least 2 prices whose implied
\* probabilities sum to at most 1 it returns the raw implied probabilities
C23_DegenerateInputNeverRaises ==
    reply.op \in DevigMethods =>
        /\ reply.ret.raises = "None"
        /\ reply.op = "remove_overround_shin" =>
            IF Cardinality(DOMAIN reply.arg.odds) < 2
            THEN reply.ret = remove_overround_basic(reply.arg.odds)
            ELSE FLeq(Total(implied_probabilities(reply.arg.odds)), <<1, 1>>)
                 => reply.ret.value = implied_probabilities(reply.arg.odds)

\* the lists that hold the matches of a list in non-decreasing date order
C24_ChronologicalOrders(matches) ==
    LET n == Len(matches)
        bijections == {f \in [1..n -> 1..n] : \A i, j \in 1..n : i # j => f[i] # f[j]}
        orders == {[i \in 1..n |-> matches[f[i]]] : f \in bijections}
    IN  {o \in orders : \A i, j \in 1..n : i < j => o[i].date <= o[j].date}

\* C24: whatever the order of the list given to EloRatingSystem.fit, the
\* ratings and the games-played counts after it are those of calling update
\* once per match in a non-decreasing date order of the matches
C24_FitReplaysInDateOrder ==
    [][reply'.op = "elo_fit" =>
        EloState(ratings', games_played') \in
            {Replay(EloState(ratings, games_played), o) :
                o \in C24_ChronologicalOrders(reply'.arg.matches)}]_vars

\* a fresh system was fitted on a list that is out of date order, and
\* replaying the list as given would have rated the teams differently
C24_Witness ==
    /\ reply.op = "elo_fit"
    /\ MatchesReplayed = Len(reply.arg.matches)
    /\ \E i, j \in 1..Len(reply.arg.matches) :
        i < j /\ reply.arg.matches[i].date > reply.arg.matches[j].date
    /\ ratings # Replay(EloState([t \in {} |-> <<>>], [t \in {} |-> 0]),
                        reply.arg.matches).ratings

\* what a bet returns: the stake times the product of its prices when no leg
\* lost, the stake when exactly one leg lost and the insurance applies, and
\* nothing otherwise
C25_Insured(bet, arg) ==
    /\ leg_losses(bet.legs) = 1
    /\ arg.insurance_enabled
    /\ Len(bet.legs) >= arg.insurance_min_legs
    /\ \A i \in 1..Len(bet.legs) : bet.legs[i].odds >= arg.insurance_min_odds

C25_Return(bet, arg) ==
    IF leg_losses(bet.legs) = 0
    THEN FMul(<<arg.stake_per_express, 1>>, leg_product(bet.legs))
    ELSE IF C25_Insured(bet, arg) THEN <<arg.stake_per_express, 1>>
    ELSE <<0, 1>>

\* the bets of the call that count: all of them, or those with a leg
C25_Counted(arg, with_legs) ==
    SelectSeq(arg.historical_bets, LAMBDA bet : ~ with_legs \/ bet.legs # <<>>)

C25_Holds(arg, ret, with_legs) ==
    LET bets == C25_Counted(arg, with_legs)
        insured == {i \in 1..Len(bets) : C25_Insured(bets[i], arg)}
    IN  /\ ret.total_returned
              = FSeqSum([i \in 1..Len(bets) |-> C25_Return(bets[i], arg)])
        /\ ret.insurance_triggered = Cardinality(insured)
        /\ ret.insurance_saved
              = <<arg.stake_per_express * Cardinality(insured), 1>>
        /\ ret.profit = FSub(ret.total_returned, ret.total_staked)
        /\ (/\ bets # <<>>
            /\ Len(bets) = Len(arg.historical_bets)
            /\ \A i \in 1..Len(bets) : leg_losses(bets[i].legs) = 0)
           => ret.win_rate = <<1, 1>>

\* C25 as stated: for each bet of the list run_backtest returns the stake
\* times the product of the leg prices when no leg lost, the stake when
\* exactly one leg lost and the insurance applies (one trigger, the stake
\* added to insurance_saved), and 0 otherwise; profit is total returned minus
\* total staked and win_rate is 1 when every bet won
C25_BacktestReturns ==
    reply.op = "run_backtest" => C25_Holds(reply.arg, reply.ret, FALSE)

\* C25 amended: the same for each bet that has at least one leg; a bet
\* without legs is skipped (nothing staked, nothing returned) and still
\* counted in total_bets, so win_rate is 1 when every bet has a leg and won
C25_BacktestReturnsForBetsWithLegs ==
    reply.op = "run_backtest" =>
        /\ C25_Holds(reply.arg, reply.ret, TRUE)
        /\ reply.ret.total_staked
              = <<reply.arg.stake_per_express
                    * Len(C25_Counted(reply.arg, TRUE)), 1>>
        /\ reply.ret.total_bets = Len(reply.arg.historical_bets)

\* a backtest over an insured bet and a bet without legs
C25_Witness ==
    /\ reply.op = "run_backtest"
    /\ reply.ret.insurance_triggered = 1
    /\ reply.ret.insurance_saved = <<reply.arg.stake_per_express, 1>>
    /\ \E i \in 1..Len(reply.arg.historical_bets) :
        reply.arg.historical_bets[i].legs = <<>>

C26_Stakes(result) ==
    LET F[n \in 0..Len(bet_history)] ==
            IF n = 0 THEN 0
            ELSE F[n - 1] + (IF bet_history[n].result = result
                             THEN bet_history[n].stake ELSE 0)
    IN  F[Len(bet_history)]

\* the sum of stake x (odds - 1) over the won records
C26_Winnings ==
    LET F[n \in 0..Len(bet_history)] ==
            IF n = 0 THEN 0
            ELSE F[n - 1] + (IF bet_history[n].result = "won"
                             THEN (bet_history[n].stake
                                     * (bet_history[n].odds - 100)) \div 100
                             ELSE 0)
    IN  F[Len(bet_history)]

C26_Balance ==
    /\ bankroll = INITIAL_BANKROLL - C26_Stakes("pending") - C26_Stakes("lost")
                  + C26_Winnings
    /\ peak_bankroll >= bankroll

C26_Step ==
    /\ peak_bankroll' >= peak_bankroll
    /\ (/\ last'.op = "settle_bet"
        /\ last'.res = "void"
        /\ FindPending(bet_history, last'.id) # 0)
       => bankroll' = bankroll + bet_history[FindPending(bet_history, last'.id)].stake

\* C26: after any record_bet and settle_bet calls the balance is the initial
\* bankroll less the stakes of the pending and of the lost records plus
\* stake x (odds - 1) of the won records; a void settlement gives back
\* exactly the recorded stake; the peak is never below the balance and never
\* decreases
C26_ConservationOfFunds == []C26_Balance /\ [][C26_Step]_vars

\* a won, a lost or pending and a voided record have moved the balance
C26_Witness ==
    /\ \E i \in 1..Len(bet_history) : bet_history[i].result = "won"
    /\ \E i \in 1..Len(bet_history) : bet_history[i].result = "void"
    /\ last.op = "settle_bet"
    /\ last.res = "void"
    /\ peak_bankroll > bankroll
    /\ bankroll # INITIAL_BANKROLL

\* a step in which the halt conditions were evaluated: check_stop_conditions
\* itself, or a settle_bet that found its pending record
C30_Evaluated ==
    \/ last'.op = "check_stop_conditions"
    \/ last'.op = "settle_bet" /\ FindPending(bet_history, last'.id) # 0

\* C30: whenever the halt conditions are evaluated, the daily P&L is the sum
\* of the profits of the settlements made in the current UTC day and the
\* weekly P&L the sum of those made in the current week: each accumulator
\* was reset once at the period boundary and no profit was dropped or
\* carried over
C30_PeriodSums ==
    [][C30_Evaluated =>
        /\ daily_pnl' = settled_today'
        /\ weekly_pnl' = settled_this_week']_vars

\* the auto-bet step of some scan records a bet in this step
C27_AutoBetRecords ==
    \E n \in ScanIds : scans'[n].placed = scans[n].placed + 1

\* C27: the auto-bet step of a scan never calls record_bet while the
\* bankroll is halted, whatever settlements and stop commands arrive while
\* the scan is suspended between sizing its stakes and recording the bets
C27_AutoBetNeverRecordsWhenHalted ==
    [][C27_AutoBetRecords => ~is_stopped]_vars

\* the records of the ledger made for the key
C28_Records(key) ==
    {i \in 1..Len(bet_history) : match_info(bet_history[i].signal_id) = key}

\* C28: over scans that overlap and restarts that reload the ledger, the
\* auto-bet step records at most one bet per match and outcome key and at
\* most AUTO_BET_MAX_PER_SCAN bets per scan
C28_OneBetPerKeyAndCappedPerScan ==
    /\ \A k \in DOMAIN MatchInfos : Cardinality(C28_Records(MatchInfos[k])) <= 1
    /\ \A n \in ScanIds : scans[n].placed <= AUTO_BET_MAX_PER_SCAN

\* a scan has placed AUTO_BET_MAX_PER_SCAN of its more than that many active
\* signals while the other scan is suspended holding a signal on a key that
\* is placed already
C28_Witness ==
    \E n \in ScanIds, m \in ScanIds :
        /\ n # m
        /\ scans[n].placed = AUTO_BET_MAX_PER_SCAN
        /\ Len(scans[n].active) > AUTO_BET_MAX_PER_SCAN
        /\ scans[m].pc \in {"enrich", "notify"}
        /\ \E i \in 1..Len(scans[m].active) :
              scans[m].active[i].match_info \in placed_keys

\* run_continuous calls run_scan in this step
C29_StartsScan == monitor = "loop" /\ monitor' = "scanning"

\* C29: run_continuous never starts a scan while the bankroll is halted: an
\* iteration that finds the halt flag set, by a stop condition that holds or
\* has lapsed or by the stop command, pauses instead of calling run_scan
C29_ContinuousNeverScansWhenHalted ==
    [][C29_StartsScan => ~is_stopped']_vars
====
